---------------------------- MODULE Spec2Model ----------------------------
(***************************************************************************)
(* rufio-ts: the policy resolution and evaluation engine.                  *)
(*                                                                         *)
(* Strings are tuples of one-character strings, so that the string         *)
(* operations of the code (startsWith, includes, split, glob matching) are *)
(* computed on characters.  A path is a record [abs, segs]: whether it is  *)
(* absolute, and its segments (each a string).  Optional values            *)
(* (path_exists?, ensure_commands?, filePath?) are tuples of length 0 or 1.*)
(***************************************************************************)
EXTENDS Integers, Sequences, FiniteSets, TLC

(* ------------------------------ strings ------------------------------- *)

\* String.prototype.startsWith
StartsWith(s, p) ==
    /\ Len(p) <= Len(s)
    /\ \A i \in 1..Len(p) : s[i] = p[i]

\* String.prototype.includes: p occurs as a contiguous substring of s
Includes(s, p) ==
    \E k \in 0..(Len(s) - Len(p)) : \A i \in 1..Len(p) : s[k + i] = p[i]

\* String.prototype.split on a one-character separator
RECURSIVE SplitAcc(_, _, _)
SplitAcc(s, sep, cur) ==
    IF s = <<>> THEN <<cur>>
    ELSE IF Head(s) = sep THEN <<cur>> \o SplitAcc(Tail(s), sep, <<>>)
    ELSE SplitAcc(Tail(s), sep, Append(cur, Head(s)))

Split(s, sep) == SplitAcc(s, sep, <<>>)

\* Array.prototype.join
RECURSIVE JoinWith(_, _)
JoinWith(parts, sep) ==
    IF parts = <<>> THEN <<>>
    ELSE IF Len(parts) = 1 THEN Head(parts)
    ELSE Head(parts) \o sep \o JoinWith(Tail(parts), sep)

(* ------------------------------- paths -------------------------------- *)

Slash == <<"/">>
DotDot == <<".", ".">>
Dot == <<".">>

AbsPath(segs) == [abs |-> TRUE, segs |-> segs]
RelPath(segs) == [abs |-> FALSE, segs |-> segs]

\* the string a path stands for
PathStr(p) ==
    IF p.abs THEN Slash \o JoinWith(p.segs, Slash) ELSE JoinWith(p.segs, Slash)

\* node:path normalize, on the segments: "." is dropped, ".." removes the
\* segment before it (at the root of an absolute path it is dropped, at the
\* start of a relative path it is kept)
RECURSIVE NormSegs(_, _, _)
NormSegs(segs, abs, acc) ==
    IF segs = <<>> THEN acc
    ELSE IF Head(segs) = Dot \/ Head(segs) = <<>> THEN NormSegs(Tail(segs), abs, acc)
    ELSE IF Head(segs) = DotDot
         THEN IF acc # <<>> /\ acc[Len(acc)] # DotDot
                   THEN NormSegs(Tail(segs), abs, SubSeq(acc, 1, Len(acc) - 1))
              ELSE IF abs THEN NormSegs(Tail(segs), abs, acc)
              ELSE NormSegs(Tail(segs), abs, Append(acc, DotDot))
    ELSE NormSegs(Tail(segs), abs, Append(acc, Head(segs)))

\* the working directory of the host process, against which node resolves
\* a relative path
ProcessCwd == AbsPath(<< <<"t">>, <<"r">> >>)

\* node:path resolve(p): an absolute, normalized path
Resolve(p) ==
    IF p.abs THEN AbsPath(NormSegs(p.segs, TRUE, <<>>))
    ELSE AbsPath(NormSegs(ProcessCwd.segs \o p.segs, TRUE, <<>>))

\* node:path resolve(base, p): p itself when it is absolute
Resolve2(base, p) ==
    IF p.abs THEN Resolve(p)
    ELSE Resolve([abs |-> base.abs, segs |-> base.segs \o p.segs])

\* node:path join(base, p): concatenation, then normalization (an absolute
\* p is NOT taken as is)
PathJoin(base, p) ==
    [abs |-> base.abs, segs |-> NormSegs(base.segs \o p.segs, base.abs, <<>>)]

\* node:path dirname of an absolute normalized path; dirname("/") = "/"
Dirname(p) ==
    IF p.segs = <<>> THEN p
    ELSE [abs |-> p.abs, segs |-> SubSeq(p.segs, 1, Len(p.segs) - 1)]

\* length of the longest common prefix of two segment lists
RECURSIVE CommonLen(_, _)
CommonLen(a, b) ==
    IF a = <<>> \/ b = <<>> THEN 0
    ELSE IF Head(a) = Head(b) THEN 1 + CommonLen(Tail(a), Tail(b))
    ELSE 0

\* node:path relative(from, to): both resolved, then one ".." for every
\* segment of from below the common ancestor, then the rest of to
Relative(from, to) ==
    LET f == Resolve(from).segs
        t == Resolve(to).segs
        k == CommonLen(f, t)
    IN  RelPath([i \in 1..(Len(f) - k) |-> DotDot] \o SubSeq(t, k + 1, Len(t)))

(* ---------------------------- glob matching --------------------------- *)

Star == "*"
Quest == "?"
GlobStar == <<"*", "*">>

\* one path segment against one pattern segment: "*" is any run of
\* characters, "?" is one character, anything else is itself
RECURSIVE MatchChars(_, _)
MatchChars(pat, s) ==
    IF pat = <<>> THEN s = <<>>
    ELSE IF Head(pat) = Star
         THEN \/ MatchChars(Tail(pat), s)
              \/ (s # <<>> /\ MatchChars(pat, Tail(s)))
    ELSE IF Head(pat) = Quest THEN s # <<>> /\ MatchChars(Tail(pat), Tail(s))
    ELSE s # <<>> /\ Head(s) = Head(pat) /\ MatchChars(Tail(pat), Tail(s))

\* minimatch without the dot option: a segment that starts with "." is
\* matched only by a pattern segment that starts with a literal "."
MatchSeg(pat, s) ==
    /\ s # <<>>
    /\ (Head(s) = "." => (pat # <<>> /\ Head(pat) = "."))
    /\ MatchChars(pat, s)

\* the segments of a path against the segments of a pattern: "**" stands
\* for zero or more segments, none of them starting with "."
RECURSIVE MatchSegs(_, _)
MatchSegs(pats, segs) ==
    IF pats = <<>> THEN segs = <<>>
    ELSE IF Head(pats) = GlobStar
         THEN \/ MatchSegs(Tail(pats), segs)
              \/ (segs # <<>> /\ Head(segs) # <<>> /\ Head(Head(segs)) # "."
                  /\ MatchSegs(pats, Tail(segs)))
    ELSE segs # <<>> /\ MatchSeg(Head(pats), Head(segs))
         /\ MatchSegs(Tail(pats), Tail(segs))

\* minimatch(path, pattern), both strings
minimatch(path, pattern) ==
    /\ path # <<>>
    /\ MatchSegs(Split(pattern, "/"), Split(path, "/"))

\* the path a string stands for
PathOf(str) ==
    [abs |-> str # <<>> /\ Head(str) = "/",
     segs |-> SelectSeq(Split(str, "/"), LAMBDA x : x # <<>>)]

(* ------------------------- the configuration -------------------------- *)

\* an optional value: absent, or present with a value
None == <<>>
Some(v) == <<v>>

\* A check as parsed from YAML.  A missing or empty string is <<>> (both are
\* falsy in the code); hasWhen and hasThen say whether the `when` and `then`
\* mappings are there; ensure_commands and ensure_changed are optional lists
\* (a list, even an empty one, is truthy).
Check(name, glob, exists, cmds, changed) ==
    [name |-> name, hasWhen |-> TRUE, paths_changed |-> glob, path_exists |-> exists,
     hasThen |-> TRUE, ensure_commands |-> cmds, ensure_changed |-> changed]

\* A YAML document: parse is "ok", "null" (an empty document) or "error"
\* (malformed text); presets and checks are optional lists.
Doc(presets, checks) == [parse |-> "ok", presets |-> presets, checks |-> checks]

CONFIG_FILENAME ==
    <<"r","u","f","i","o","-","h","o","o","k","s",".","y","a","m","l">>

VARIABLES
    configAt,    \* the file system: directory -> the rufio-hooks.yaml in it, if any
    present,     \* the file system: the other paths that exist
    xdgPresets,  \* the file system: path of a preset file -> the document in it
    xdgConfigHome, \* process.env.XDG_CONFIG_HOME, if set
    messages,    \* the session transcript: messages, each a list of parts
    pc,          \* "acting": the session is running; "checked": runChecks has returned
    lastFiles,   \* the changed files the last runChecks was given
    lastEvents,  \* the tool events it was given
    result,      \* what the last runChecks returned
    findArgs,    \* the arguments of the last findNearestConfig call
    findResult,  \* what it returned
    loadResult,  \* what the last loadConfig returned
    call,        \* the last call of a function of transcript.ts or zellij.ts,
                 \* with its arguments and what it returned
    earlier,     \* an earlier runChecks call, kept to compare later ones with
    askingState,         \* plugin: session -> true while permission is asked
    sessionDirectories,  \* plugin: session -> its directory, once fetched
    lastSpinnerUpdate,   \* plugin: session -> time of its last spinner update
    spinnerState,        \* zellij.ts: session -> frame of its spinner
    prompts,     \* the prompts the plugin has injected, each with its session
    lastEvent,   \* the last event the plugin handled, with what the host gave it
    inFlight     \* the handlers suspended at an await, and the sessions that ended

pluginVars ==
    <<askingState, sessionDirectories, lastSpinnerUpdate, spinnerState, prompts, lastEvent,
      inFlight>>

vars ==
    <<configAt, present, xdgPresets, xdgConfigHome, messages, pc, lastFiles, lastEvents,
      result, findArgs, findResult, loadResult, call, earlier, pluginVars>>

\* no call yet, no earlier run, and the plugin as it is loaded: its maps empty
NoCall == [fn |-> "none", args |-> <<>>, value |-> <<>>]
NoSessions == [s \in {} |-> TRUE]
NoEvent == [type |-> "none"]
NoneInFlight == [handlers |-> {}, ended |-> {}]
Idle ==
    /\ call = NoCall
    /\ earlier = <<>>
    /\ askingState = NoSessions
    /\ sessionDirectories = NoSessions
    /\ lastSpinnerUpdate = NoSessions
    /\ spinnerState = NoSessions
    /\ prompts = <<>>
    /\ lastEvent = NoEvent
    /\ inFlight = NoneInFlight

\* existsSync
existsSync(p) ==
    LET r == Resolve(p)
    IN  \/ r \in present
        \/ r \in DOMAIN xdgPresets
        \/ /\ r.segs # <<>>
           /\ r.segs[Len(r.segs)] = CONFIG_FILENAME
           /\ Dirname(r) \in DOMAIN configAt
           /\ configAt[Dirname(r)] # None

\* readFileSync + parse of the config file at configPath
ParsedConfig(configPath) == configAt[Dirname(Resolve(configPath))][1]

\* os.homedir()
homedir == AbsPath(<< <<"h">> >>)

\* getXdgConfigHome: XDG_CONFIG_HOME, or ~/.config when it is not set
getXdgConfigHome ==
    IF xdgConfigHome # None THEN PathOf(xdgConfigHome[1])
    ELSE PathJoin(homedir, RelPath(<< <<".","c","o","n","f","i","g">> >>))

\* join(getXdgConfigHome(), "rufio", "presets", `${name}.yaml`)
PresetPath(name) ==
    PathJoin(getXdgConfigHome,
             RelPath(<< <<"r","u","f","i","o">>, <<"p","r","e","s","e","t","s">> >>
                     \o PathOf(name \o <<".","y","a","m","l">>).segs))

Ok(checks) == [kind |-> "ok", checks |-> checks, error |-> <<>>]
Throw(error) == [kind |-> "throw", checks |-> <<>>, error |-> error]

\* the error messages, as the pieces of their template literals
InvalidConfig == "Invalid config at "
YamlError == <<"YAMLParseError">>

\* what loadXdgPreset returns: the checks of the preset file (kind "ok"),
\* null when the file is not there or holds no checks (kind "null"), or
\* the parser's error (kind "throw")
NullPreset == [kind |-> "null", checks |-> <<>>, error |-> <<>>]

\* loadXdgPreset, from the parsed document on
presetOf(parsed) ==
    IF parsed.parse = "error" THEN Throw(YamlError)
    ELSE IF parsed.parse = "null" \/ parsed.checks = None THEN NullPreset
    ELSE Ok(parsed.checks[1])

\* loadXdgPreset, from the path of the preset file on
loadPresetAt(presetPath) ==
    IF ~existsSync(presetPath) THEN NullPreset
    ELSE presetOf(xdgPresets[Resolve(presetPath)])

\* loadXdgPreset
loadXdgPreset(name) == loadPresetAt(PresetPath(name))

\* one turn of the loop of resolvePresets: preset is what loadXdgPreset
\* returned for name, rest is what the later turns give
resolveTurn(name, preset, rest, configPath) ==
    IF preset.kind = "throw" THEN preset
    ELSE IF preset.kind = "null"
         THEN Throw(<<InvalidConfig, PathStr(configPath), ": preset '", name,
                      "' not found at ", PathStr(PresetPath(name))>>)
    ELSE IF rest.kind = "throw" THEN rest
    ELSE Ok(preset.checks \o rest.checks)

\* resolvePresets expanding a name once, however often it is listed
RECURSIVE resolvePresetsOnce(_, _)
resolvePresetsOnce(presetNames, configPath) ==
    IF presetNames = <<>> THEN Ok(<<>>)
    ELSE IF /\ \E i \in 2..Len(presetNames) : presetNames[i] = Head(presetNames)
            /\ loadXdgPreset(Head(presetNames)).kind = "ok"
         THEN resolvePresetsOnce(Tail(presetNames), configPath)
    ELSE resolveTurn(Head(presetNames), loadXdgPreset(Head(presetNames)),
                     resolvePresetsOnce(Tail(presetNames), configPath), configPath)

\* resolvePresets: the checks of the presets, in order, or the error of the
\* first preset that is not found
RECURSIVE resolvePresets(_, _)
resolvePresets(presetNames, configPath) ==
    IF presetNames = <<>> THEN Ok(<<>>)
    ELSE resolveTurn(Head(presetNames), loadXdgPreset(Head(presetNames)),
                     resolvePresets(Tail(presetNames), configPath), configPath)

\* validateCheck looking at when.paths_changed before the name
validateCheckTriggerFirst(check, configPath) ==
    IF ~check.hasWhen \/ check.paths_changed = <<>>
         THEN <<InvalidConfig, PathStr(configPath), ": check '", check.name,
                "' missing 'when.paths_changed'">>
    ELSE IF check.name = <<>>
         THEN <<InvalidConfig, PathStr(configPath), ": check missing 'name'">>
    ELSE IF ~check.hasThen
         THEN <<InvalidConfig, PathStr(configPath), ": check '", check.name,
                "' missing 'then'">>
    ELSE IF check.ensure_commands = None /\ check.ensure_changed = None
         THEN <<InvalidConfig, PathStr(configPath), ": check '", check.name,
                "' must have 'then.ensure_commands' or 'then.ensure_changed'">>
    ELSE IF check.ensure_commands # None /\ check.ensure_changed # None
         THEN <<InvalidConfig, PathStr(configPath), ": check '", check.name,
                "' cannot have both 'then.ensure_commands' and 'then.ensure_changed'">>
    ELSE <<>>

\* validateCheck: the message of the error it throws, or <<>> when it
\* throws none
validateCheck(check, configPath) ==
    IF check.name = <<>>
         THEN <<InvalidConfig, PathStr(configPath), ": check missing 'name'">>
    ELSE IF ~check.hasWhen \/ check.paths_changed = <<>>
         THEN <<InvalidConfig, PathStr(configPath), ": check '", check.name,
                "' missing 'when.paths_changed'">>
    ELSE IF ~check.hasThen
         THEN <<InvalidConfig, PathStr(configPath), ": check '", check.name,
                "' missing 'then'">>
    ELSE IF check.ensure_commands = None /\ check.ensure_changed = None
         THEN <<InvalidConfig, PathStr(configPath), ": check '", check.name,
                "' must have 'then.ensure_commands' or 'then.ensure_changed'">>
    ELSE IF check.ensure_commands # None /\ check.ensure_changed # None
         THEN <<InvalidConfig, PathStr(configPath), ": check '", check.name,
                "' cannot have both 'then.ensure_commands' and 'then.ensure_changed'">>
    ELSE <<>>

\* the first validation error of the checks, in order
RECURSIVE validateAll(_, _)
validateAll(checks, configPath) ==
    IF checks = <<>> THEN <<>>
    ELSE LET error == validateCheck(Head(checks), configPath)
         IN  IF error # <<>> THEN error ELSE validateAll(Tail(checks), configPath)

\* loadConfig validating the presets' checks like the local ones
loadConfigValidateAll(configPath) ==
    LET parsed == ParsedConfig(configPath)
        isNull == parsed.parse = "null"
        presetChecks == IF ~isNull /\ parsed.presets # None
                        THEN resolvePresets(parsed.presets[1], configPath) ELSE Ok(<<>>)
        userChecks == IF ~isNull /\ parsed.checks # None THEN parsed.checks[1] ELSE <<>>
        mergedChecks == presetChecks.checks \o userChecks
        invalid == validateAll(mergedChecks, configPath)
    IN  IF parsed.parse = "error" THEN Throw(YamlError)
        ELSE IF presetChecks.kind = "throw" THEN presetChecks
        ELSE IF Len(mergedChecks) = 0
             THEN Throw(<<InvalidConfig, PathStr(configPath),
                          ": no checks defined (add 'presets' or 'checks')">>)
        ELSE IF invalid # <<>> THEN Throw(invalid)
        ELSE Ok(mergedChecks)

\* loadConfig without the test for an empty list of checks
loadConfigAllowEmpty(configPath) ==
    LET parsed == ParsedConfig(configPath)
        isNull == parsed.parse = "null"
        presetChecks == IF ~isNull /\ parsed.presets # None
                        THEN resolvePresets(parsed.presets[1], configPath) ELSE Ok(<<>>)
        userChecks == IF ~isNull /\ parsed.checks # None THEN parsed.checks[1] ELSE <<>>
        mergedChecks == presetChecks.checks \o userChecks
        invalid == validateAll(userChecks, configPath)
    IN  IF parsed.parse = "error" THEN Throw(YamlError)
        ELSE IF presetChecks.kind = "throw" THEN presetChecks
        ELSE IF invalid # <<>> THEN Throw(invalid)
        ELSE Ok(mergedChecks)

\* loadConfig
loadConfig(configPath) ==
    LET parsed == ParsedConfig(configPath)
        isNull == parsed.parse = "null"
        presetChecks == IF ~isNull /\ parsed.presets # None
                        THEN resolvePresets(parsed.presets[1], configPath) ELSE Ok(<<>>)
        userChecks == IF ~isNull /\ parsed.checks # None THEN parsed.checks[1] ELSE <<>>
        mergedChecks == presetChecks.checks \o userChecks
        invalid == validateAll(userChecks, configPath)
    IN  IF parsed.parse = "error" THEN Throw(YamlError)
        ELSE IF presetChecks.kind = "throw" THEN presetChecks
        ELSE IF Len(mergedChecks) = 0
             THEN Throw(<<InvalidConfig, PathStr(configPath),
                          ": no checks defined (add 'presets' or 'checks')">>)
        ELSE IF invalid # <<>> THEN Throw(invalid)
        ELSE Ok(mergedChecks)

(* ------------------------------ presets.ts ---------------------------- *)

\* the built-in presets
PRESETS ==
    (<<"c","a","r","g","o">> :> <<
        Check(<<"c","a","r","g","o","-","c","h","e","c","k","s">>, <<"*","*","/","*",".","r","s">>, <<>>,
              Some(<<<<"c","a","r","g","o"," ","t","e","s","t">>, <<"c","a","r","g","o"," ","f","m","t">>, <<"c","a","r","g","o"," ","c","l","i","p","p","y">>>>), None),
        Check(<<"c","a","r","g","o","-","v","e","r","s","i","o","n","-","b","u","m","p">>, <<"*","*","/","*",".","r","s">>, <<"p","a","c","k","a","g","e",".","n","i","x">>,
              None, Some(<<<<"v","e","r","s","i","o","n",".","t","o","m","l">>>>)) >>)
    @@ (<<"m","e","o","w">> :> <<
        Check(<<"m","e","o","w","-","f","m","t">>, <<"*","*","/","*",".","m","d">>, <<>>,
              Some(<<<<"m","e","o","w"," ","f","m","t">>>>), None) >>)
    @@ (<<"p","n","p","m">> :> <<
        Check(<<"p","n","p","m","-","c","h","e","c","k","s">>, <<"*","*","/","*",".","t","s">>, <<>>,
              Some(<<<<"p","n","p","m"," ","l","i","n","t">>, <<"p","n","p","m"," ","t","y","p","e","c","h","e","c","k">>, <<"p","n","p","m"," ","t","e","s","t">>>>), None),
        Check(<<"p","n","p","m","-","v","e","r","s","i","o","n","-","b","u","m","p">>, <<"*","*","/","*",".","t","s">>, <<"p","a","c","k","a","g","e",".","n","i","x">>,
              None, Some(<<<<"v","e","r","s","i","o","n",".","t","o","m","l">>>>)) >>)
    @@ (<<"l","e","d","g","e","r">> :> <<
        Check(<<"l","e","d","g","e","r","-","c","h","e","c","k","s">>, <<"*","*","/","*",".","l","e","d","g","e","r">>, <<>>,
              Some(<<<<"h","l","e","d","g","e","r"," ","c","h","e","c","k">>, <<"f","o","l","i","o"," ","v","a","l","i","d","a","t","e">>>>), None) >>)
    @@ (<<"t","e","r","r","a","f","o","r","m">> :> <<
        Check(<<"t","e","r","r","a","f","o","r","m","-","c","h","e","c","k","s">>, <<"*","*","/","*",".","t","f">>, <<>>,
              Some(<<<<"t","o","f","u"," ","f","m","t">>, <<"t","f","l","i","n","t">>, <<"t","r","i","v","y"," ","c","o","n","f","i","g"," ",".">>>>), None) >>)

(* --------------------------- config discovery ------------------------- *)

NoPath == AbsPath(<<>>)
Found(config, dir, path) ==
    [kind |-> "config", config |-> config, configDir |-> dir, configPath |-> path, error |-> <<>>]
NotFound ==
    [kind |-> "null", config |-> <<>>, configDir |-> NoPath, configPath |-> NoPath, error |-> <<>>]
FindThrows(error) ==
    [kind |-> "throw", config |-> <<>>, configDir |-> NoPath, configPath |-> NoPath, error |-> error]

\* the loop of findNearestConfig keeping the config found highest up
RECURSIVE findFromOutermost(_, _)
findFromOutermost(currentDir, absoluteRepoRoot) ==
    IF ~StartsWith(PathStr(currentDir), PathStr(absoluteRepoRoot)) THEN NotFound
    ELSE LET configPath == PathJoin(currentDir, RelPath(<<CONFIG_FILENAME>>))
             parentDir == Dirname(currentDir)
             above == IF parentDir = currentDir THEN NotFound
                      ELSE findFromOutermost(parentDir, absoluteRepoRoot)
         IN  IF above.kind # "null" THEN above
             ELSE IF existsSync(configPath)
             THEN LET config == loadConfig(configPath)
                  IN  IF config.kind = "throw" THEN FindThrows(config.error)
                      ELSE Found(config.checks, currentDir, configPath)
             ELSE NotFound

\* the loop of findNearestConfig, from currentDir upwards
RECURSIVE findFrom(_, _)
findFrom(currentDir, absoluteRepoRoot) ==
    IF ~StartsWith(PathStr(currentDir), PathStr(absoluteRepoRoot)) THEN NotFound
    ELSE LET configPath == PathJoin(currentDir, RelPath(<<CONFIG_FILENAME>>))
             parentDir == Dirname(currentDir)
         IN  IF existsSync(configPath)
             THEN LET config == loadConfig(configPath)
                  IN  IF config.kind = "throw" THEN FindThrows(config.error)
                      ELSE Found(config.checks, currentDir, configPath)
             ELSE IF parentDir = currentDir THEN NotFound
             ELSE findFrom(parentDir, absoluteRepoRoot)

\* findNearestConfig starting one directory too high
findNearestConfigFromParent(filePath, repoRoot) ==
    findFrom(Dirname(Dirname(Resolve(filePath))), Resolve(repoRoot))

\* findNearestConfig(filePath, repoRoot), both paths
findNearestConfig(filePath, repoRoot) ==
    findFrom(Dirname(Resolve(filePath)), Resolve(repoRoot))

\* groupFilesByConfig opening a group for every file that has a config
RECURSIVE groupFromPerFile(_, _, _)
groupFromPerFile(changedFiles, repoRoot, groups) ==
    IF changedFiles = <<>> THEN [kind |-> "ok", groups |-> groups, error |-> <<>>]
    ELSE LET file == Head(changedFiles)
             loaded == findNearestConfig(PathJoin(repoRoot, PathOf(file)), repoRoot)
         IN  IF loaded.kind = "throw"
                  THEN [kind |-> "throw", groups |-> <<>>, error |-> loaded.error]
             ELSE IF loaded.kind = "null"
                  THEN groupFromPerFile(Tail(changedFiles), repoRoot, groups)
             ELSE groupFromPerFile(Tail(changedFiles), repoRoot,
                         Append(groups, [loaded |-> loaded, files |-> <<file>>]))

\* groupFilesByConfig leaving the loop at the first file without a config
RECURSIVE groupFromStop(_, _, _)
groupFromStop(changedFiles, repoRoot, groups) ==
    IF changedFiles = <<>> THEN [kind |-> "ok", groups |-> groups, error |-> <<>>]
    ELSE LET file == Head(changedFiles)
             loaded == findFrom(Dirname(Resolve(PathJoin(repoRoot, PathOf(file)))),
                                Resolve(repoRoot))
             at == {i \in 1..Len(groups) : groups[i].loaded.configPath = loaded.configPath}
         IN  IF loaded.kind = "throw"
                  THEN [kind |-> "throw", groups |-> <<>>, error |-> loaded.error]
             ELSE IF loaded.kind = "null"
                  THEN [kind |-> "ok", groups |-> groups, error |-> <<>>]
             ELSE IF at # {}
                  THEN groupFromStop(Tail(changedFiles), repoRoot,
                         [groups EXCEPT ![CHOOSE i \in at : TRUE].files = Append(@, file)])
             ELSE groupFromStop(Tail(changedFiles), repoRoot,
                         Append(groups, [loaded |-> loaded, files |-> <<file>>]))

\* groupFilesByConfig leaving out the files whose config does not load
RECURSIVE groupFromSkipInvalid(_, _, _)
groupFromSkipInvalid(changedFiles, repoRoot, groups) ==
    IF changedFiles = <<>> THEN [kind |-> "ok", groups |-> groups, error |-> <<>>]
    ELSE LET file == Head(changedFiles)
             loaded == findNearestConfig(PathJoin(repoRoot, PathOf(file)), repoRoot)
             at == {i \in 1..Len(groups) : groups[i].loaded.configPath = loaded.configPath}
         IN  IF loaded.kind = "throw" \/ loaded.kind = "null"
                  THEN groupFromSkipInvalid(Tail(changedFiles), repoRoot, groups)
             ELSE IF at # {}
                  THEN groupFromSkipInvalid(Tail(changedFiles), repoRoot,
                         [groups EXCEPT ![CHOOSE i \in at : TRUE].files = Append(@, file)])
             ELSE groupFromSkipInvalid(Tail(changedFiles), repoRoot,
                         Append(groups, [loaded |-> loaded, files |-> <<file>>]))

\* groupFilesByConfig: the groups in insertion order, each the loaded
\* config and its files; `groups` is what the loop has built so far
RECURSIVE groupFrom(_, _, _)
groupFrom(changedFiles, repoRoot, groups) ==
    IF changedFiles = <<>> THEN [kind |-> "ok", groups |-> groups, error |-> <<>>]
    ELSE LET file == Head(changedFiles)
             loaded == findNearestConfig(PathJoin(repoRoot, PathOf(file)), repoRoot)
             at == {i \in 1..Len(groups) : groups[i].loaded.configPath = loaded.configPath}
         IN  IF loaded.kind = "throw"
                  THEN [kind |-> "throw", groups |-> <<>>, error |-> loaded.error]
             ELSE IF loaded.kind = "null"
                  THEN groupFrom(Tail(changedFiles), repoRoot, groups)
             ELSE IF at # {}
                  THEN groupFrom(Tail(changedFiles), repoRoot,
                         [groups EXCEPT ![CHOOSE i \in at : TRUE].files = Append(@, file)])
             ELSE groupFrom(Tail(changedFiles), repoRoot,
                         Append(groups, [loaded |-> loaded, files |-> <<file>>]))

groupFilesByConfig(changedFiles, repoRoot) == groupFrom(changedFiles, repoRoot, <<>>)

(* ----------------------------- transcript ----------------------------- *)

BashName == <<"B","a","s","h">>
EditName == <<"E","d","i","t">>
WriteName == <<"W","r","i","t","e">>

\* the letters that tool names are written with
LowerOf == [A |-> "a", B |-> "b", D |-> "d", E |-> "e", H |-> "h", I |-> "i",
            M |-> "m", R |-> "r", S |-> "s", T |-> "t", W |-> "w"]
UpperOf == [a |-> "A", b |-> "B", d |-> "D", e |-> "E", h |-> "H", i |-> "I",
            m |-> "M", r |-> "R", s |-> "S", t |-> "T", w |-> "W"]

\* String.prototype.toLowerCase
toLowerCase(s) == [i \in 1..Len(s) |-> IF s[i] \in DOMAIN LowerOf THEN LowerOf[s[i]] ELSE s[i]]

\* charAt(0).toUpperCase() + slice(1)
capitalize(s) ==
    [i \in 1..Len(s) |-> IF i = 1 /\ s[i] \in DOMAIN UpperOf THEN UpperOf[s[i]] ELSE s[i]]

\* a tool part of a message: the tool's name, its state's status, and the
\* command and filePath of its input, when the input has them
ToolPart(tool, status, command, filePath) ==
    [type |-> "tool", tool |-> tool, status |-> status,
     command |-> command, filePath |-> filePath]

ToolEvent(toolName, command, filePath, index) ==
    [toolName |-> toolName, command |-> command, filePath |-> filePath, index |-> index]

\* extractToolEvent: the event of a tool part, or null (None)
extractToolEvent(part, index) ==
    LET toolName == toLowerCase(part.tool)
    IN  IF part.status # "completed" /\ part.status # "running" THEN None
        ELSE IF toolName = <<"b","a","s","h">> \/ toolName = <<"m","c","p","_","b","a","s","h">>
             THEN Some(ToolEvent(BashName, part.command, None, index))
        ELSE IF toolName = <<"e","d","i","t">> \/ toolName = <<"m","c","p","_","e","d","i","t">>
             THEN Some(ToolEvent(EditName, None, part.filePath, index))
        ELSE IF toolName = <<"w","r","i","t","e">>
                  \/ toolName = <<"m","c","p","_","w","r","i","t","e">>
             THEN Some(ToolEvent(WriteName, None, part.filePath, index))
        ELSE Some(ToolEvent(capitalize(toolName), None, None, index))

\* the loop of extractToolEvents over the parts of all messages, in order
RECURSIVE extractFrom(_, _)
extractFrom(parts, events) ==
    IF parts = <<>> THEN events
    ELSE LET event == IF Head(parts).type = "tool"
                      THEN extractToolEvent(Head(parts), Len(events)) ELSE None
         IN  extractFrom(Tail(parts), events \o event)

RECURSIVE Flatten(_)
Flatten(ms) == IF ms = <<>> THEN <<>> ELSE Head(ms) \o Flatten(Tail(ms))

\* extractToolEvents numbering the events of each message from 0
RECURSIVE extractToolEventsPerMessage(_)
extractToolEventsPerMessage(msgs) ==
    IF msgs = <<>> THEN <<>>
    ELSE extractFrom(Head(msgs), <<>>) \o extractToolEventsPerMessage(Tail(msgs))

\* extractToolEvents
extractToolEvents(msgs) == extractFrom(Flatten(msgs), <<>>)

IsEditOrWrite(event) == event.toolName = EditName \/ event.toolName = WriteName

\* a string that is there and not empty
Truthy(opt) == opt # None /\ opt[1] # <<>>

\* the file paths of the events: the paths a matcher is asked about
EventPaths(events) ==
    {events[i].filePath[1] : i \in {j \in 1..Len(events) : events[j].filePath # None}}

\* findLastEditIndex looking at the Edit events only
findLastEditOnly(events, fileMatcher) ==
    LET hits == {i \in 1..Len(events) :
                    /\ events[i].toolName = EditName
                    /\ Truthy(events[i].filePath)
                    /\ fileMatcher[events[i].filePath[1]]}
    IN  IF hits = {} THEN -1
        ELSE events[CHOOSE i \in hits : \A j \in hits : j <= i].index

\* findLastEditIndex stopping at the first matching event
findFirstEditIndex(events, fileMatcher) ==
    LET hits == {i \in 1..Len(events) :
                    /\ IsEditOrWrite(events[i])
                    /\ Truthy(events[i].filePath)
                    /\ fileMatcher[events[i].filePath[1]]}
    IN  IF hits = {} THEN -1
        ELSE events[CHOOSE i \in hits : \A j \in hits : i <= j].index

\* findLastEditIndex with lastIndex starting at 0
findLastEditIndexFromZero(events, fileMatcher) ==
    LET hits == {i \in 1..Len(events) :
                    /\ IsEditOrWrite(events[i])
                    /\ Truthy(events[i].filePath)
                    /\ fileMatcher[events[i].filePath[1]]}
    IN  IF hits = {} THEN 0
        ELSE events[CHOOSE i \in hits : \A j \in hits : j <= i].index

\* findLastEditIndex: the index of the last event, in list order, that is an
\* Edit or Write of a path the matcher accepts; -1 when there is none.  The
\* matcher is a Boolean function of the events' paths.
findLastEditIndex(events, fileMatcher) ==
    LET hits == {i \in 1..Len(events) :
                    /\ IsEditOrWrite(events[i])
                    /\ Truthy(events[i].filePath)
                    /\ fileMatcher[events[i].filePath[1]]}
    IN  IF hits = {} THEN -1
        ELSE events[CHOOSE i \in hits : \A j \in hits : j <= i].index

\* wasCommandRunAfter with the position of the command ignored
wasCommandRunAnywhere(events, patterns, afterIndex) ==
    \E i \in 1..Len(events) :
        /\ events[i].toolName = BashName
        /\ Truthy(events[i].command)
        /\ \E k \in 1..Len(patterns) : Includes(events[i].command[1], patterns[k])

\* wasCommandRunAfter asking for a command that is a pattern, letter by letter
wasCommandRunExact(events, patterns, afterIndex) ==
    \E i \in 1..Len(events) :
        /\ events[i].toolName = BashName
        /\ Truthy(events[i].command)
        /\ events[i].index > afterIndex
        /\ \E k \in 1..Len(patterns) : events[i].command[1] = patterns[k]

\* wasCommandRunAfter
wasCommandRunAfter(events, patterns, afterIndex) ==
    \E i \in 1..Len(events) :
        /\ events[i].toolName = BashName
        /\ Truthy(events[i].command)
        /\ events[i].index > afterIndex
        /\ \E k \in 1..Len(patterns) : Includes(events[i].command[1], patterns[k])

(* ------------------------------- runner ------------------------------- *)

\* a CheckResult, and the TypeError of reading a property of undefined
\* (raised names the property read)
Pass == [error |-> <<>>, raised |-> <<>>]
Fail(message) == [error |-> message, raised |-> <<>>]
Raise(property) == [error |-> <<>>, raised |-> <<"TypeError", property>>]

CommaSpace == <<",", " ">>

\* checkCommands
\* checkCommands reporting the first missing command only
checkCommandsFirstMissing(check, toolEvents, lastEditIndex) ==
    LET commands == IF check.ensure_commands # None THEN check.ensure_commands[1] ELSE <<>>
        missingCommands ==
            SelectSeq(commands, LAMBDA c : ~wasCommandRunAfter(toolEvents, <<c>>, lastEditIndex))
    IN  IF Len(missingCommands) > 0
        THEN Fail(<<"Check '", check.name,
                    "' failed: these commands must run after editing ", check.paths_changed,
                    ": ", missingCommands[1]>>)
        ELSE Pass

checkCommands(check, toolEvents, lastEditIndex) ==
    LET commands == IF check.ensure_commands # None THEN check.ensure_commands[1] ELSE <<>>
        missingCommands ==
            SelectSeq(commands, LAMBDA c : ~wasCommandRunAfter(toolEvents, <<c>>, lastEditIndex))
    IN  IF Len(missingCommands) > 0
        THEN Fail(<<"Check '", check.name,
                    "' failed: these commands must run after editing ", check.paths_changed,
                    ": ", JoinWith(missingCommands, CommaSpace)>>)
        ELSE Pass

\* checkEnsureChanged asking for every path instead of one of them
checkEnsureChangedAll(check, toolEvents, configDir) ==
    LET paths == IF check.ensure_changed # None THEN check.ensure_changed[1] ELSE <<>>
        edited == SelectSeq(toolEvents, LAMBDA e : IsEditOrWrite(e) /\ Truthy(e.filePath))
    IN  IF \A k \in 1..Len(paths) : \E i \in 1..Len(edited) :
               Resolve(PathOf(edited[i].filePath[1])) = Resolve2(configDir, PathOf(paths[k]))
        THEN Pass
        ELSE Fail(<<"Check '", check.name,
                    "' failed: one of these files must be changed when editing ",
                    check.paths_changed, ": ", JoinWith(paths, CommaSpace)>>)

\* checkEnsureChanged
checkEnsureChanged(check, toolEvents, configDir) ==
    LET paths == IF check.ensure_changed # None THEN check.ensure_changed[1] ELSE <<>>
        edited == SelectSeq(toolEvents, LAMBDA e : IsEditOrWrite(e) /\ Truthy(e.filePath))
    IN  IF \E k \in 1..Len(paths) : \E i \in 1..Len(edited) :
               Resolve(PathOf(edited[i].filePath[1])) = Resolve2(configDir, PathOf(paths[k]))
        THEN Pass
        ELSE Fail(<<"Check '", check.name,
                    "' failed: one of these files must be changed when editing ",
                    check.paths_changed, ": ", JoinWith(paths, CommaSpace)>>)

\* globMatcher with the path taken relative to the process's directory
globMatcherFromCwd(check, configDir, path) ==
    LET relativeToConfig == PathStr(Relative(ProcessCwd, path))
    IN  /\ ~StartsWith(relativeToConfig, DotDot)
        /\ minimatch(relativeToConfig, check.paths_changed)

\* the glob of the check against a path, taken relative to the config dir
globMatcher(check, configDir, path) ==
    LET relativeToConfig == PathStr(Relative(configDir, path))
    IN  /\ ~StartsWith(relativeToConfig, DotDot)
        /\ minimatch(relativeToConfig, check.paths_changed)

\* the path_exists condition never looked at
conditionIgnored(check, configDir) == FALSE

\* the path_exists condition of the check is set and not met
conditionNotMet(check, configDir) ==
    /\ check.path_exists # <<>>
    /\ ~existsSync(PathJoin(configDir, PathOf(check.path_exists)))

\* the changed files the glob of the check matches
matchingFiles(check, configDir, changedFiles, repoRoot) ==
    SelectSeq(changedFiles,
              LAMBDA file : globMatcher(check, configDir, PathJoin(repoRoot, PathOf(file))))

\* runSingleCheck going on when no matching file was edited in the session
runSingleCheckDirty(check, loaded, changedFiles, toolEvents, repoRoot) ==
    LET configDir == loaded.configDir
        lastEditIndex ==
            findLastEditIndex(toolEvents,
                [path \in EventPaths(toolEvents) |-> globMatcher(check, configDir, PathOf(path))])
    IN  IF ~check.hasWhen THEN Raise("path_exists")
        ELSE IF conditionNotMet(check, configDir) THEN Pass
        ELSE IF Len(matchingFiles(check, configDir, changedFiles, repoRoot)) = 0 THEN Pass
        ELSE IF ~check.hasThen THEN Raise("ensure_commands")
        ELSE IF check.ensure_commands # None
             THEN checkCommands(check, toolEvents, lastEditIndex)
        ELSE IF check.ensure_changed # None
             THEN checkEnsureChanged(check, toolEvents, configDir)
        ELSE Pass

\* runSingleCheck
runSingleCheck(check, loaded, changedFiles, toolEvents, repoRoot) ==
    LET configDir == loaded.configDir
        lastEditIndex ==
            findLastEditIndex(toolEvents,
                [path \in EventPaths(toolEvents) |-> globMatcher(check, configDir, PathOf(path))])
    IN  IF ~check.hasWhen THEN Raise("path_exists")
        ELSE IF conditionNotMet(check, configDir) THEN Pass
        ELSE IF Len(matchingFiles(check, configDir, changedFiles, repoRoot)) = 0 THEN Pass
        ELSE IF lastEditIndex = -1 THEN Pass
        ELSE IF ~check.hasThen THEN Raise("ensure_commands")
        ELSE IF check.ensure_commands # None
             THEN checkCommands(check, toolEvents, lastEditIndex)
        ELSE IF check.ensure_changed # None
             THEN checkEnsureChanged(check, toolEvents, configDir)
        ELSE Pass

\* runConfigChecks: the result of the first check that fails, in order
RECURSIVE runChecksFrom(_, _, _, _, _)
runChecksFrom(checks, loaded, changedFiles, toolEvents, repoRoot) ==
    IF checks = <<>> THEN Pass
    ELSE LET r == runSingleCheck(Head(checks), loaded, changedFiles, toolEvents, repoRoot)
         IN  IF r.raised # <<>> \/ r.error # <<>> THEN r
             ELSE runChecksFrom(Tail(checks), loaded, changedFiles, toolEvents, repoRoot)

runConfigChecks(loaded, changedFiles, toolEvents, repoRoot) ==
    runChecksFrom(loaded.config, loaded, changedFiles, toolEvents, repoRoot)

Null == [kind |-> "null", message |-> <<>>, error |-> <<>>]
Message(m) == [kind |-> "message", message |-> m, error |-> <<>>]
Throws(e) == [kind |-> "throw", message |-> <<>>, error |-> e]

\* the loop of runChecks going on after a failure: the last one is kept
RECURSIVE runGroupsKeepLast(_, _, _)
runGroupsKeepLast(groups, toolEvents, repoRoot) ==
    IF groups = <<>> THEN Null
    ELSE LET r == runConfigChecks(Head(groups).loaded, Head(groups).files, toolEvents, repoRoot)
             rest == runGroupsKeepLast(Tail(groups), toolEvents, repoRoot)
         IN  IF r.raised # <<>> THEN Throws(r.raised)
             ELSE IF rest.kind # "null" THEN rest
             ELSE IF r.error # <<>> THEN Message(r.error)
             ELSE Null

\* the loop of runChecks over the groups, in insertion order
RECURSIVE runGroupsFrom(_, _, _)
runGroupsFrom(groups, toolEvents, repoRoot) ==
    IF groups = <<>> THEN Null
    ELSE LET r == runConfigChecks(Head(groups).loaded, Head(groups).files, toolEvents, repoRoot)
         IN  IF r.raised # <<>> THEN Throws(r.raised)
             ELSE IF r.error # <<>> THEN Message(r.error)
             ELSE runGroupsFrom(Tail(groups), toolEvents, repoRoot)

\* runChecks answering from an earlier run of the same files and events
runChecksMemo(changedFiles, toolEvents, repoRoot) ==
    LET grouped == groupFilesByConfig(changedFiles, repoRoot)
    IN  IF earlier # None /\ earlier[1].files = changedFiles /\ earlier[1].events = toolEvents
             THEN earlier[1].verdict
        ELSE IF grouped.kind = "throw" THEN Throws(grouped.error)
        ELSE runGroupsFrom(grouped.groups, toolEvents, repoRoot)

\* runChecks(changedFiles, toolEvents, repoRoot)
runChecks(changedFiles, toolEvents, repoRoot) ==
    LET grouped == groupFilesByConfig(changedFiles, repoRoot)
    IN  IF grouped.kind = "throw" THEN Throws(grouped.error)
        ELSE runGroupsFrom(grouped.groups, toolEvents, repoRoot)

(* ------------------------- the checked universe ----------------------- *)

\* the longest transcript, in tool calls
MaxLog == 3

\* directories: /t, the repository /t/r with its packages /t/r/a and
\* /t/r/b, and /t/r2, a sibling of the repository
DirT == AbsPath(<< <<"t">> >>)
DirR == AbsPath(<< <<"t">>, <<"r">> >>)
DirA == AbsPath(<< <<"t">>, <<"r">>, <<"a">> >>)
DirB == AbsPath(<< <<"t">>, <<"r">>, <<"b">> >>)
DirR2 == AbsPath(<< <<"t">>, <<"r", "2">> >>)
Dirs == {DirT, DirR, DirA, DirB, DirR2}

RepoRoot == PathOf(<<"/","t","/","r">>)

GlobAllTs == <<"*","*","/","*",".","t","s">>
GlobTopTs == <<"*",".","t","s">>
PatTest == <<"t","s","t">>
PatFmt == <<"f","m","t">>
PatNever == <<"n","e","v","e","r">>
Marker == <<"m">>

\* the rufio-hooks.yaml of each directory, when it has one
DocA ==
    Doc(None, Some(<<
        Check(<<"l","i","n","t">>, GlobAllTs, <<>>, Some(<<PatTest, PatFmt>>), None),
        Check(<<"b","u","m","p","A">>, GlobTopTs, Marker, None, Some(<<<<"n">>, <<"v">>>>)) >>))
DocB ==
    Doc(None, Some(<<
        Check(<<"b","u","m","p","B">>, GlobAllTs, Marker, None, Some(<<<<"v">>>>)),
        Check(<<"f","m","t","B">>, GlobAllTs, <<>>, Some(<<PatFmt>>), None) >>))
DocR ==
    Doc(None, Some(<<
        Check(<<"v","e","r","R">>, GlobAllTs, <<>>, None, Some(<<<<"a","/","v">>>>)),
        Check(<<"l","i","n","t","R">>, GlobAllTs, <<>>, Some(<<PatFmt, PatTest>>), None) >>))
DocOut ==
    Doc(None, Some(<< Check(<<"o","u","t">>, GlobAllTs, <<>>, Some(<<PatNever>>), None) >>))
DocOf(dir) ==
    IF dir = DirA THEN DocA ELSE IF dir = DirB THEN DocB
    ELSE IF dir = DirR THEN DocR ELSE DocOut

\* a config that does not load: its only check has no name
DocBroken ==
    Doc(None, Some(<< Check(<<>>, GlobAllTs, <<>>, Some(<<PatFmt>>), None) >>))

\* the file systems of the engine's runs: /t and /t/r2, outside the
\* repository, always hold a config; /t/r, /t/r/a and /t/r/b may
Layouts ==
    {[d \in Dirs |-> IF d \in inside \/ d \in {DirT, DirR2} THEN Some(DocOf(d)) ELSE None] :
        inside \in SUBSET {DirR, DirA, DirB}}

\* /t/r/a/m exists, /t/r/b/m does not
PresentFiles == {PathOf(<<"/","t","/","r","/","a","/","m">>)}

NoPresets == [n \in {} |-> None]

\* the tool calls of a session
ToolCalls ==
    { ToolPart(<<"e","d","i","t">>, "completed", None, Some(<<"/","t","/","r","/","a","/","x",".","t","s">>)),
      ToolPart(<<"m","c","p","_","w","r","i","t","e">>, "completed", None, Some(<<"/","t","/","r","/","b","/","x",".","t","s">>)),
      ToolPart(<<"E","d","i","t">>, "running", None, Some(<<"/","t","/","r","/","b","/",".",".","/","a","/","v">>)),
      ToolPart(<<"B","a","s","h">>, "completed", Some(<<"t","s","t"," ","-","a">>), None),
      ToolPart(<<"m","c","p","_","b","a","s","h">>, "completed", Some(<<"x"," ","f","m","t">>), None) }

\* the changed-file lists a run may be given, relative to the repository
FileLists ==
    { <<>>,
      << <<"a","/","x",".","t","s">>, <<"b","/","x",".","t","s">> >>,
      << <<"b","/","x",".","t","s">>, <<"a","/","x",".","t","s">> >>,
      << <<"a","/","v">> >> }

NoFind == [filePath |-> NoPath, repoRoot |-> NoPath]
NotLoaded == [kind |-> "none", checks |-> <<>>, error |-> <<>>]

(* ------------------------------ the engine ---------------------------- *)

Init ==
    /\ configAt \in Layouts
    /\ present = PresentFiles
    /\ xdgPresets = NoPresets
    /\ xdgConfigHome = None
    /\ messages = <<>>
    /\ pc = "acting"
    /\ lastFiles = <<>>
    /\ lastEvents = <<>>
    /\ result = Null
    /\ findArgs = NoFind
    /\ findResult = NotFound
    /\ loadResult = NotLoaded
    /\ Idle

\* the session calls a tool: the transcript grows by one message
ToolCall(part) ==
    /\ Len(messages) < MaxLog
    /\ messages' = Append(messages, <<part>>)
    /\ pc' = "acting"
    /\ lastFiles' = <<>>
    /\ lastEvents' = <<>>
    /\ result' = Null
    /\ UNCHANGED <<call, earlier, pluginVars, configAt, present, xdgPresets, xdgConfigHome, findArgs, findResult, loadResult>>

\* runChecks is called with the changed files and the transcript's events
RunChecks(changedFiles) ==
    /\ pc = "acting"
    /\ pc' = "checked"
    /\ lastFiles' = changedFiles
    /\ lastEvents' = extractToolEvents(messages)
    /\ result' = runChecks(changedFiles, extractToolEvents(messages), RepoRoot)
    /\ UNCHANGED <<call, earlier, pluginVars, configAt, present, xdgPresets, xdgConfigHome, messages, findArgs, findResult, loadResult>>

Next ==
    \/ \E part \in ToolCalls : ToolCall(part)
    \/ \E changedFiles \in FileLists : RunChecks(changedFiles)

Spec == Init /\ [][Next]_vars

(* ------------------------ findNearestConfig alone --------------------- *)

\* the file systems of the calls: every directory holds its config, a
\* config that does not load, or none
FindLayouts == [Dirs -> {None, Some(DocOut), Some(DocBroken)}]

FindFiles ==
    { <<"/","t","/","r","/","a","/","x",".","t","s">>, <<"/","t","/","r","/","x",".","t","s">>, <<"/","t","/","r","/","b","/",".",".","/","a","/","x",".","t","s">>, <<"/","t","/","r","2","/","x",".","t","s">>, <<"/","t","/","x",".","t","s">> }
FindRoots == { <<"/","t","/","r">>, <<"/","t","/","r","/">>, <<"/","t","/","r","/","a">>, <<"/","t">> }

InitFind ==
    /\ configAt \in FindLayouts
    /\ present = {}
    /\ xdgPresets = NoPresets
    /\ xdgConfigHome = None
    /\ messages = <<>>
    /\ pc = "find"
    /\ lastFiles = <<>>
    /\ lastEvents = <<>>
    /\ result = Null
    /\ findArgs = NoFind
    /\ findResult = NotFound
    /\ loadResult = NotLoaded
    /\ Idle

\* findNearestConfig is called with a file path and a root, both strings
Find(filePath, repoRoot) ==
    /\ pc = "find"
    /\ pc' = "found"
    /\ findArgs' = [filePath |-> PathOf(filePath), repoRoot |-> PathOf(repoRoot)]
    /\ findResult' = findNearestConfig(PathOf(filePath), PathOf(repoRoot))
    /\ UNCHANGED <<call, earlier, pluginVars, configAt, present, xdgPresets, xdgConfigHome, messages, lastFiles, lastEvents, result, loadResult>>

NextFind == \E filePath \in FindFiles : \E repoRoot \in FindRoots : Find(filePath, repoRoot)

SpecFind == InitFind /\ [][NextFind]_vars

(* ---------------------------- loadConfig alone ----------------------- *)

\* the longest list of presets and the longest list of local checks of a
\* document
MaxPresets == 2
MaxChecks == 2

SeqsUpTo(S, n) == UNION {[1..k -> S] : k \in 0..n}

\* preset names: two that only a file can define, and a built-in one
PresetP == <<"p">>
PresetQ == <<"q">>
PresetCargo == <<"c","a","r","g","o">>
PresetNames == {PresetP, PresetQ, PresetCargo}

\* every shape of a check: each of name, when, when.paths_changed, then,
\* then.ensure_commands and then.ensure_changed missing, empty or set
CheckShapes ==
    {c \in [name : {<<>>, <<"c">>}, hasWhen : BOOLEAN, paths_changed : {<<>>, GlobAllTs},
            path_exists : {<<>>}, hasThen : BOOLEAN,
            ensure_commands : {None, Some(<<>>), Some(<<PatFmt>>)},
            ensure_changed : {None, Some(<<>>), Some(<< <<"v">> >>)}] :
        /\ c.hasWhen \/ c.paths_changed = <<>>
        /\ c.hasThen \/ (c.ensure_commands = None /\ c.ensure_changed = None)}

\* the checks that lists of local checks are made of
CkCommands == Check(<<"k","c">>, GlobAllTs, <<>>, Some(<<PatFmt>>), None)
CkChanged == Check(<<"k","v">>, GlobAllTs, <<>>, None, Some(<< <<"v">> >>))
CkNoName == Check(<<>>, GlobAllTs, <<>>, Some(<<PatFmt>>), None)
CkBoth == Check(<<"k","b">>, GlobAllTs, <<>>, Some(<<PatFmt>>), Some(<< <<"v">> >>))
CkEmpty == Check(<<"k","e">>, GlobAllTs, <<>>, None, Some(<<>>))
SampleChecks == {CkCommands, CkChanged, CkNoName, CkBoth, CkEmpty}

\* the checks of preset files: one that is fine, one that no validation
\* would let through (no name, no then)
PresetGood == Check(<<"p","g">>, GlobAllTs, <<>>, Some(<<PatTest>>), None)
PresetBad ==
    [name |-> <<>>, hasWhen |-> TRUE, paths_changed |-> GlobAllTs, path_exists |-> <<>>,
     hasThen |-> FALSE, ensure_commands |-> None, ensure_changed |-> None]
PresetOther == Check(<<"q","g">>, GlobTopTs, <<>>, None, Some(<< <<"v">> >>))

\* the documents loadConfig is given: a document that is empty, one that
\* does not parse, every shape of a check alone and after a valid check,
\* with and without a preset, and every list of presets with every list of
\* sample checks
LoadDocs ==
    {[parse |-> "null", presets |-> None, checks |-> None],
     [parse |-> "error", presets |-> None, checks |-> None]}
    \cup {Doc(ps, Some(cs)) : ps \in {None, Some(<<PresetP>>)},
                              cs \in {<<c>> : c \in CheckShapes}
                                     \cup {<<CkCommands, c>> : c \in CheckShapes}}
    \cup {Doc(ps, cs) :
            ps \in {None} \cup {Some(q) : q \in SeqsUpTo(PresetNames, MaxPresets)},
            cs \in {None} \cup {Some(q) : q \in SeqsUpTo(SampleChecks, MaxChecks)}}

\* XDG_CONFIG_HOME when it is set, and the preset files of two directories
XdgHome == <<"/","x">>
PresetFile(home, name) ==
    PathOf(home \o <<"/","r","u","f","i","o","/","p","r","e","s","e","t","s","/">> \o name \o <<".","y","a","m","l">>)
HomeConfig == <<"/","h","/",".","c","o","n","f","i","g">>
XdgLayouts ==
    { NoPresets,
      (PresetFile(XdgHome, PresetP) :> Doc(None, Some(<<PresetGood, PresetBad>>)))
        @@ (PresetFile(XdgHome, PresetQ) :> Doc(None, Some(<<PresetOther>>))),
      (PresetFile(XdgHome, PresetP) :> Doc(None, Some(<<>>)))
        @@ (PresetFile(XdgHome, PresetQ) :> Doc(None, Some(<<PresetOther>>))),
      (PresetFile(XdgHome, PresetP) :> Doc(None, None))
        @@ (PresetFile(XdgHome, PresetCargo) :> Doc(None, Some(<<PresetOther>>))),
      (PresetFile(HomeConfig, PresetP) :> Doc(None, Some(<<PresetGood>>)))
        @@ (PresetFile(XdgHome, PresetQ) :> [parse |-> "error", presets |-> None, checks |-> None]),
      (PresetFile(XdgHome, PresetP) :> [parse |-> "null", presets |-> None, checks |-> None])
        @@ (PresetFile(HomeConfig, PresetQ) :> Doc(None, Some(<<PresetOther>>))) }

\* the config file loadConfig is given
LoadPath == PathJoin(DirR, RelPath(<<CONFIG_FILENAME>>))

InitLoad ==
    /\ \E doc \in LoadDocs : configAt = [d \in Dirs |-> IF d = DirR THEN Some(doc) ELSE None]
    /\ present = {}
    /\ xdgPresets \in XdgLayouts
    /\ xdgConfigHome \in {None, Some(XdgHome)}
    /\ messages = <<>>
    /\ pc = "load"
    /\ lastFiles = <<>>
    /\ lastEvents = <<>>
    /\ result = Null
    /\ findArgs = NoFind
    /\ findResult = NotFound
    /\ loadResult = NotLoaded
    /\ Idle

\* loadConfig is called on the config file
Load(configPath) ==
    /\ pc = "load"
    /\ pc' = "loaded"
    /\ loadResult' = loadConfig(configPath)
    /\ UNCHANGED <<call, earlier, pluginVars, configAt, present, xdgPresets, xdgConfigHome, messages, lastFiles,
                   lastEvents, result, findArgs, findResult>>

NextLoad == Load(LoadPath)

SpecLoad == InitLoad /\ [][NextLoad]_vars

(* ------------------- the engine on configs that fail ----------------- *)

\* documents that do not load: malformed text, an empty document, a preset
\* that is nowhere, a local check without a name
DocMalformed == [parse |-> "error", presets |-> None, checks |-> None]
DocEmpty == [parse |-> "null", presets |-> None, checks |-> None]
DocNoPreset == Doc(Some(<<PresetP>>), Some(<<CkCommands>>))

\* the file systems: each of /t/r, /t/r/a and /t/r/b without a config, with
\* its config, or with one that does not load
ErrLayouts ==
    {[d \in Dirs |-> IF d \in {DirT, DirR2} THEN None ELSE f[d]] :
        f \in [{DirR, DirA, DirB} ->
                  {None, Some(DocBroken), Some(DocMalformed), Some(DocEmpty), Some(DocNoPreset)}
                  \cup {Some(DocA), Some(DocB)}]}

\* the transcripts of the sessions
ErrLogs ==
    { <<>>,
      << <<ToolPart(<<"e","d","i","t">>, "completed", None,
                    Some(<<"/","t","/","r","/","a","/","x",".","t","s">>))>> >>,
      << <<ToolPart(<<"w","r","i","t","e">>, "completed", None,
                    Some(<<"/","t","/","r","/","b","/","x",".","t","s">>))>>,
         <<ToolPart(<<"b","a","s","h">>, "completed", Some(<<"f","m","t">>), None)>> >> }

InitErr ==
    /\ configAt \in ErrLayouts
    /\ present = PresentFiles
    /\ xdgPresets = NoPresets
    /\ xdgConfigHome = None
    /\ messages \in ErrLogs
    /\ pc = "acting"
    /\ lastFiles = <<>>
    /\ lastEvents = <<>>
    /\ result = Null
    /\ findArgs = NoFind
    /\ findResult = NotFound
    /\ loadResult = NotLoaded
    /\ Idle

NextErr == \E changedFiles \in FileLists : RunChecks(changedFiles)

SpecErr == InitErr /\ [][NextErr]_vars

(* ------------------------ extractToolEvents alone -------------------- *)

\* the longest transcript
MaxMessages == 3

\* a part that is no tool call
TextPart == [type |-> "text"]

\* the messages of a transcript: without parts, with text only, with tool
\* calls that are completed, running, pending or failed, of tools the
\* engine knows and of others, named directly and with the mcp_ prefix, in
\* several letter cases, with and without their input
LogMessages ==
    { <<>>,
      <<TextPart>>,
      <<ToolPart(<<"b","a","s","h">>, "completed", Some(<<"f","m","t">>), None),
        ToolPart(<<"E","d","i","t">>, "running", None,
                 Some(<<"/","t","/","r","/","a","/","x",".","t","s">>))>>,
      <<ToolPart(<<"w","r","i","t","e">>, "pending", None,
                 Some(<<"/","t","/","r","/","b","/","x",".","t","s">>))>>,
      <<TextPart,
        ToolPart(<<"r","e","a","d">>, "completed", None,
                 Some(<<"/","t","/","r","/","a","/","x",".","t","s">>)),
        ToolPart(<<"b","a","s","h">>, "pending", None, None),
        ToolPart(<<"m","c","p","_","b","a","s","h">>, "running", None, None)>>,
      <<ToolPart(<<"B","a","s","h">>, "error", Some(<<"t","s","t">>), None),
        ToolPart(<<"m","c","p","_","w","r","i","t","e">>, "completed", None, None)>>,
      <<ToolPart(<<"m","c","p","_","e","d","i","t">>, "completed", None,
                 Some(<<"/","t","/","r","/","b","/","x",".","t","s">>))>>,
      <<ToolPart(<<"B","A","S","H">>, "completed", Some(<<"t","s","t">>), None),
        ToolPart(<<"m","c","p","_","r","e","a","d">>, "completed", None,
                 Some(<<"/","t","/","r","/","a","/","x",".","t","s">>))>> }

InitLog ==
    /\ configAt = [d \in Dirs |-> None]
    /\ present = {}
    /\ xdgPresets = NoPresets
    /\ xdgConfigHome = None
    /\ messages = <<>>
    /\ pc = "logging"
    /\ lastFiles = <<>>
    /\ lastEvents = <<>>
    /\ result = Null
    /\ findArgs = NoFind
    /\ findResult = NotFound
    /\ loadResult = NotLoaded
    /\ Idle

\* the session goes on: a message is added to the transcript
Say(message) ==
    /\ pc = "logging"
    /\ Len(messages) < MaxMessages
    /\ messages' = Append(messages, message)
    /\ UNCHANGED <<call, earlier, pluginVars, configAt, present, xdgPresets, xdgConfigHome, pc, lastFiles, lastEvents,
                   result, findArgs, findResult, loadResult>>

\* extractToolEvents is called on the transcript
Extract ==
    /\ pc = "logging"
    /\ pc' = "extracted"
    /\ lastEvents' = extractToolEvents(messages)
    /\ UNCHANGED <<call, earlier, pluginVars, configAt, present, xdgPresets, xdgConfigHome, messages, lastFiles,
                   result, findArgs, findResult, loadResult>>

NextLog ==
    \/ \E message \in LogMessages : Say(message)
    \/ Extract

SpecLog == InitLog /\ [][NextLog]_vars

(* ------------------- the functions of transcript.ts ------------------ *)

\* the messages of a transcript, one tool call each: edits and writes with a
\* path, without one and with an empty one, commands that hold a pattern, two
\* patterns, a pattern with a gap, and none, and a tool the engine does not know
TrMessages ==
    { <<ToolPart(<<"e","d","i","t">>, "completed", None, Some(<<"/","t","/","r","/","a","/","x",".","t","s">>))>>,
      <<ToolPart(<<"w","r","i","t","e">>, "completed", None, Some(<<"/","t","/","r","/","b","/","x",".","t","s">>))>>,
      <<ToolPart(<<"e","d","i","t">>, "completed", None, None)>>,
      <<ToolPart(<<"w","r","i","t","e">>, "completed", None, Some(<<>>))>>,
      <<ToolPart(<<"b","a","s","h">>, "completed", Some(<<"t","s","t"," ","-","a">>), None)>>,
      <<ToolPart(<<"b","a","s","h">>, "completed", Some(<<"f","m","t"," ","t","s","t">>), None)>>,
      <<ToolPart(<<"b","a","s","h">>, "completed", Some(<<"f","-","m","t">>), None)>>,
      <<ToolPart(<<"b","a","s","h">>, "completed", None, None)>>,
      <<ToolPart(<<"r","e","a","d">>, "completed", None, Some(<<"/","t","/","r","/","a","/","x",".","t","s">>))>> }

\* the lists of patterns a caller asks for
TrPatterns == SeqsUpTo({PatTest, PatFmt}, 2)

InitTr ==
    /\ configAt = [d \in Dirs |-> None]
    /\ present = {}
    /\ xdgPresets = NoPresets
    /\ xdgConfigHome = None
    /\ messages = <<>>
    /\ pc = "logging"
    /\ lastFiles = <<>>
    /\ lastEvents = <<>>
    /\ result = Null
    /\ findArgs = NoFind
    /\ findResult = NotFound
    /\ loadResult = NotLoaded
    /\ Idle

\* findLastEditIndex is called on the events of the transcript, with a
\* matcher: a Boolean function of the paths of the events
FindLast(fileMatcher) ==
    /\ pc = "logging"
    /\ pc' = "called"
    /\ lastEvents' = extractToolEvents(messages)
    /\ call' = [fn |-> "findLastEditIndex", args |-> <<fileMatcher>>,
                value |-> findLastEditIndex(extractToolEvents(messages), fileMatcher)]
    /\ UNCHANGED <<earlier, pluginVars, configAt, present, xdgPresets, xdgConfigHome, messages,
                   lastFiles, result, findArgs, findResult, loadResult>>

\* wasCommandRunAfter is called on the events of the transcript
RunAfter(patterns, afterIndex) ==
    /\ pc = "logging"
    /\ pc' = "called"
    /\ lastEvents' = extractToolEvents(messages)
    /\ call' = [fn |-> "wasCommandRunAfter", args |-> <<patterns, afterIndex>>,
                value |-> wasCommandRunAfter(extractToolEvents(messages), patterns, afterIndex)]
    /\ UNCHANGED <<earlier, pluginVars, configAt, present, xdgPresets, xdgConfigHome, messages,
                   lastFiles, result, findArgs, findResult, loadResult>>

NextTr ==
    \/ \E message \in TrMessages : Say(message)
    \/ \E fileMatcher \in [EventPaths(extractToolEvents(messages)) -> BOOLEAN] :
          FindLast(fileMatcher)
    \/ \E patterns \in TrPatterns : \E afterIndex \in -1..Len(messages) :
          RunAfter(patterns, afterIndex)

SpecTr == InitTr /\ [][NextTr]_vars

(* ------------------------- the engine over time ---------------------- *)

\* the files of the file system that change between runs: the config of
\* /t/r, which is absent, lists its own checks or takes them from preset p,
\* and the file of preset p, which is absent or holds one of two checks
ReConfigs == {None, Some(DocR), Some(DocNoPreset)}
RePresets ==
    { NoPresets,
      PresetFile(HomeConfig, PresetP) :> Doc(None, Some(<<PresetGood>>)),
      PresetFile(HomeConfig, PresetP) :> Doc(None, Some(<<PresetOther>>)) }

\* the tool calls of the session and the changed files of a run
ReCalls ==
    { ToolPart(<<"e","d","i","t">>, "completed", None, Some(<<"/","t","/","r","/","a","/","x",".","t","s">>)),
      ToolPart(<<"b","a","s","h">>, "completed", Some(<<"x"," ","f","m","t">>), None) }
ReFiles ==
    { << <<"a","/","x",".","t","s">> >>,
      << <<"x",".","t","s">>, <<"a","/","v">> >> }

\* what the engine reads of the file system
FileSystem == <<configAt, present, xdgPresets, xdgConfigHome>>

InitRe ==
    /\ configAt = [d \in Dirs |-> IF d = DirR THEN Some(DocR) ELSE None]
    /\ present = PresentFiles
    /\ xdgPresets = NoPresets
    /\ xdgConfigHome = None
    /\ messages = <<>>
    /\ pc = "acting"
    /\ lastFiles = <<>>
    /\ lastEvents = <<>>
    /\ result = Null
    /\ findArgs = NoFind
    /\ findResult = NotFound
    /\ loadResult = NotLoaded
    /\ Idle

\* the config file of /t/r is written, created or removed
WriteConfig(doc) ==
    /\ pc = "acting"
    /\ configAt[DirR] # doc
    /\ configAt' = [configAt EXCEPT ![DirR] = doc]
    /\ UNCHANGED <<call, earlier, pluginVars, present, xdgPresets, xdgConfigHome, messages, pc,
                   lastFiles, lastEvents, result, findArgs, findResult, loadResult>>

\* the file of preset p is written, created or removed
WritePreset(files) ==
    /\ pc = "acting"
    /\ xdgPresets # files
    /\ xdgPresets' = files
    /\ UNCHANGED <<call, earlier, pluginVars, configAt, present, xdgConfigHome, messages, pc,
                   lastFiles, lastEvents, result, findArgs, findResult, loadResult>>

\* runChecks has returned and the session goes on; the first time round,
\* the run may be kept: its arguments, the file system it ran on, its verdict
Return(keep) ==
    /\ pc = "checked"
    /\ pc' = "acting"
    /\ earlier' = IF keep /\ earlier = None
                  THEN Some([files |-> lastFiles, events |-> lastEvents,
                             fs |-> FileSystem, verdict |-> result])
                  ELSE earlier
    /\ lastFiles' = <<>>
    /\ lastEvents' = <<>>
    /\ result' = Null
    /\ UNCHANGED <<call, pluginVars, configAt, present, xdgPresets, xdgConfigHome, messages,
                   findArgs, findResult, loadResult>>

NextRe ==
    \/ \E part \in ReCalls : ToolCall(part)
    \/ \E doc \in ReConfigs : WriteConfig(doc)
    \/ \E files \in RePresets : WritePreset(files)
    \/ \E changedFiles \in ReFiles : RunChecks(changedFiles)
    \/ \E keep \in BOOLEAN : Return(keep)

SpecRe == InitRe /\ [][NextRe]_vars

(* --------------------------- deriveNameFromCwd ------------------------ *)

Tmp == <<"t","m","p">>
MeowTreesDir == <<"/",".","m","e","o","w","/","t","r","e","e","s","/">>
SrcDir == <<"/","s","r","c","/">>

\* a name that is there, and is not "tmp"
nameOrNull(name) == IF name # <<>> /\ name # Tmp THEN Some(name) ELSE None

\* the branch: the first component after ~/.meow/trees/
meowBranch(rest) == nameOrNull(Split(rest, "/")[1])

\* the project: the second component after ~/src/ with every test of it
\* but the one for "tmp"
srcProjectAny(parts) ==
    IF Len(parts) >= 2 /\ parts[2] # <<>> THEN Some(parts[2])
    ELSE nameOrNull(parts[1])

\* the project: the second component after ~/src/, the first one when
\* there is no second
srcProject(parts) ==
    IF Len(parts) >= 2 /\ parts[2] = Tmp THEN None
    ELSE IF Len(parts) >= 2 /\ parts[2] # <<>> THEN Some(parts[2])
    ELSE nameOrNull(parts[1])

\* the last of the non-empty components
lastComponent(components) ==
    IF components = <<>> THEN None ELSE nameOrNull(components[Len(components)])

deriveNameFrom(cwd, home) ==
    IF StartsWith(cwd, home \o MeowTreesDir)
    THEN meowBranch(SubSeq(cwd, Len(home \o MeowTreesDir) + 1, Len(cwd)))
    ELSE IF StartsWith(cwd, home \o SrcDir)
    THEN srcProject(Split(SubSeq(cwd, Len(home \o SrcDir) + 1, Len(cwd)), "/"))
    ELSE lastComponent(SelectSeq(Split(cwd, "/"), LAMBDA c : c # <<>>))

\* deriveNameFromCwd(cwd), with process.env.HOME as envHome
deriveNameFromCwd(cwd, envHome) ==
    deriveNameFrom(cwd, IF Truthy(envHome) THEN envHome[1] ELSE <<>>)

\* the deepest directory below the start of a working directory
MaxDepth == 3

HomeDir == <<"/","h">>
EnvHomes == {None, Some(<<>>), Some(HomeDir)}

\* working directories: nothing, the home directory or another one, then
\* nothing, .meow/trees, src or .meow, then up to MaxDepth components
RECURSIVE Slashed(_)
Slashed(components) ==
    IF components = <<>> THEN <<>> ELSE <<"/">> \o Head(components) \o Slashed(Tail(components))
CwdHeads == {<<>>, HomeDir, <<"/","x">>}
CwdMiddles ==
    {<<>>, <<"/",".","m","e","o","w","/","t","r","e","e","s">>, <<"/","s","r","c">>,
     <<"/",".","m","e","o","w">>}
CwdComponents == {<<>>, Tmp, <<"x">>, <<"s","r","c">>}
Cwds ==
    {h \o m \o Slashed(t) :
        h \in CwdHeads, m \in CwdMiddles, t \in SeqsUpTo(CwdComponents, MaxDepth)}

InitName ==
    /\ configAt = [d \in Dirs |-> None]
    /\ present = {}
    /\ xdgPresets = NoPresets
    /\ xdgConfigHome = None
    /\ messages = <<>>
    /\ pc = "naming"
    /\ lastFiles = <<>>
    /\ lastEvents = <<>>
    /\ result = Null
    /\ findArgs = NoFind
    /\ findResult = NotFound
    /\ loadResult = NotLoaded
    /\ Idle

\* deriveNameFromCwd is called
DeriveName(cwd, envHome) ==
    /\ pc = "naming"
    /\ pc' = "named"
    /\ call' = [fn |-> "deriveNameFromCwd", args |-> <<cwd, envHome>>,
                value |-> deriveNameFromCwd(cwd, envHome)]
    /\ UNCHANGED <<earlier, pluginVars, configAt, present, xdgPresets, xdgConfigHome, messages,
                   lastFiles, lastEvents, result, findArgs, findResult, loadResult>>

NextName == \E cwd \in Cwds : \E envHome \in EnvHomes : DeriveName(cwd, envHome)

SpecName == InitName /\ [][NextName]_vars

(* ------------------------------ the plugin ---------------------------- *)

SPINNER_FRAMES_LENGTH == 10
SPINNER_THROTTLE_MS == 100

\* the most prompts in flight
MaxPrompts == 1

\* the last spinner frame the sessions of the model get to
MaxFrame == 2

\* Map.set, Map.delete and Map.get(k) ?? d
MapSet(m, k, v) == [x \in DOMAIN m \cup {k} |-> IF x = k THEN v ELSE m[x]]
MapDelete(m, k) == [x \in DOMAIN m \ {k} |-> m[x]]
MapGet(m, k, d) == IF k \in DOMAIN m THEN m[k] ELSE d

\* the sessions of the host
Sessions == {"s1", "s2"}

\* the directory the plugin is loaded with, which is the directory of the
\* sessions; process.env.HOME of the plugin's process
PluginDirectory == <<"/","t","/","r">>
ProcessHome == Some(HomeDir)

\* what client.session.get answers: an error, or the directory
Fetches == {None, Some(PluginDirectory)}

\* Date.now() at an event
Clock == {1000, 1000 + SPINNER_THROTTLE_MS}

EndsWith(s, p) == Len(p) <= Len(s) /\ SubSeq(s, Len(s) - Len(p) + 1, Len(s)) = p

QuestionName == <<"q","u","e","s","t","i","o","n">>
isQuestionTool(tool) ==
    \/ tool = QuestionName
    \/ tool = <<"m","c","p","_">> \o QuestionName
    \/ EndsWith(tool, <<"_">> \o QuestionName)

Tools == {QuestionName, <<"x","_">> \o QuestionName, <<"b","a","s","h">>}

\* getSessionDirectory caching whatever it returns, the fallback too
getSessionDirectoryCacheAll(cache, sessionID, fetched, fallback) ==
    IF sessionID \in DOMAIN cache /\ cache[sessionID] # <<>>
    THEN [dir |-> cache[sessionID], cache |-> cache]
    ELSE IF Truthy(fetched)
    THEN [dir |-> fetched[1], cache |-> MapSet(cache, sessionID, fetched[1])]
    ELSE [dir |-> fallback, cache |-> MapSet(cache, sessionID, fallback)]

\* getSessionDirectory: the directory, and the cache after the call
getSessionDirectory(cache, sessionID, fetched, fallback) ==
    IF sessionID \in DOMAIN cache /\ cache[sessionID] # <<>>
    THEN [dir |-> cache[sessionID], cache |-> cache]
    ELSE IF Truthy(fetched)
    THEN [dir |-> fetched[1], cache |-> MapSet(cache, sessionID, fetched[1])]
    ELSE [dir |-> fallback, cache |-> cache]

\* the directory getSessionDirectory answers, and the cache it leaves
DirOf(sessionID, fetched) ==
    getSessionDirectory(sessionDirectories, sessionID, fetched, PluginDirectory).dir
CacheOf(sessionID, fetched) ==
    getSessionDirectory(sessionDirectories, sessionID, fetched, PluginDirectory).cache

\* the prefixes of a tab name: a frame of SPINNER_FRAMES, ASKING_CHAR, DONE_CHAR
SpinnerFrame(index) == [char |-> "spinner", frame |-> index]
ASKING_CHAR == [char |-> "asking", frame |-> 0]
DONE_CHAR == [char |-> "done", frame |-> 0]

\* updateZellijTab: the prefix it gives the tab, none when no name is derived
tabPrefix(spinner, state, cwd, sessionID) ==
    IF deriveNameFromCwd(cwd, ProcessHome) = None THEN None
    ELSE IF state = "active" THEN Some(SpinnerFrame(MapGet(spinner, sessionID, 0)))
    ELSE IF state = "asking" THEN Some(ASKING_CHAR)
    ELSE Some(DONE_CHAR)

\* a handler's call of updateZellijTab for a session, with its prefix
TabUpdate(spinner, state, cwd, sessionID) ==
    [fn |-> "updateZellijTab", args |-> <<state, sessionID>>,
     value |-> tabPrefix(spinner, state, cwd, sessionID)]

\* updateZellijTab advancing the spinner without wrapping around
updateZellijTabNoWrap(spinner, state, cwd, sessionID) ==
    IF deriveNameFromCwd(cwd, ProcessHome) = None THEN spinner
    ELSE IF state = "active"
    THEN MapSet(spinner, sessionID, MapGet(spinner, sessionID, 0) + 1)
    ELSE IF state = "stopped" THEN MapDelete(spinner, sessionID)
    ELSE spinner

\* updateZellijTab: the spinner state after the call
updateZellijTab(spinner, state, cwd, sessionID) ==
    IF deriveNameFromCwd(cwd, ProcessHome) = None THEN spinner
    ELSE IF state = "active"
    THEN MapSet(spinner, sessionID, (MapGet(spinner, sessionID, 0) + 1) % SPINNER_FRAMES_LENGTH)
    ELSE IF state = "stopped" THEN MapDelete(spinner, sessionID)
    ELSE spinner

\* cleanupSession(sessionID) of zellij.ts
cleanupSession(spinner, sessionID) == MapDelete(spinner, sessionID)

\* getChangedFiles: the files git status lists, none when it fails
getChangedFiles(files, gitOk) == IF gitOk THEN files ELSE <<>>

\* runStopChecks on the changed files and the answer of client.session.messages
runStopChecksOn(changedFiles, transcript, apiOk, cwd) ==
    IF changedFiles = <<>> THEN Null
    ELSE IF ~apiOk THEN Null
    ELSE runChecks(changedFiles, extractToolEvents(transcript), PathOf(cwd))

\* runStopChecks asking for the transcript only: the changed files ignored
runStopChecksAlways(files, gitOk, transcript, apiOk, cwd) ==
    IF ~apiOk THEN Null
    ELSE runChecks(files, extractToolEvents(transcript), PathOf(cwd))

\* runStopChecks
runStopChecks(files, gitOk, transcript, apiOk, cwd) ==
    runStopChecksOn(getChangedFiles(files, gitOk), transcript, apiOk, cwd)

Event(type, sessionID) == [type |-> type, sessionID |-> sessionID]

\* no spinner is beyond frame MaxFrame
SpinnerBounded == \A s \in DOMAIN spinnerState : spinnerState[s] <= MaxFrame

\* session.idle updating the tab only: no prompt is sent
IdleWithoutPrompt(sessionID, sessionDir, error) ==
    /\ askingState' = MapDelete(askingState, sessionID)
    /\ result' = error
    /\ prompts' = prompts
    /\ spinnerState' =
          IF result'.kind = "message"
          THEN updateZellijTab(spinnerState, "active", sessionDir, sessionID)
          ELSE IF result'.kind = "throw" THEN spinnerState
          ELSE updateZellijTab(spinnerState, "stopped", sessionDir, sessionID)
    /\ call' =
          IF result'.kind = "message"
          THEN TabUpdate(spinnerState, "active", sessionDir, sessionID)
          ELSE IF result'.kind = "throw" THEN NoCall
          ELSE TabUpdate(spinnerState, "stopped", sessionDir, sessionID)

\* session.idle, once the directory is known and the checks have run
IdleWith(sessionID, sessionDir, error) ==
    /\ askingState' = MapDelete(askingState, sessionID)
    /\ result' = error
    /\ prompts' = IF result'.kind = "message"
                  THEN Append(prompts, [sessionID |-> sessionID, text |-> result'.message])
                  ELSE prompts
    /\ spinnerState' =
          IF result'.kind = "message"
          THEN updateZellijTab(spinnerState, "active", sessionDir, sessionID)
          ELSE IF result'.kind = "throw" THEN spinnerState
          ELSE updateZellijTab(spinnerState, "stopped", sessionDir, sessionID)
    /\ call' =
          IF result'.kind = "message"
          THEN TabUpdate(spinnerState, "active", sessionDir, sessionID)
          ELSE IF result'.kind = "throw" THEN NoCall
          ELSE TabUpdate(spinnerState, "stopped", sessionDir, sessionID)

\* the handler of session.idle; files and transcript are what git status
\* and the host would answer, gitOk and apiOk whether they do; the event is
\* recorded with the number of prompts the handler sent
SessionIdle(sessionID, fetched, files, gitOk, transcript, apiOk) ==
    /\ pc = "serving"
    /\ Len(prompts) < MaxPrompts
    /\ sessionDirectories' = CacheOf(sessionID, fetched)
    /\ IdleWith(sessionID, DirOf(sessionID, fetched),
                runStopChecks(files, gitOk, transcript, apiOk, DirOf(sessionID, fetched)))
    /\ lastFiles' = files
    /\ lastEvents' = extractToolEvents(transcript)
    /\ SpinnerBounded'
    /\ lastEvent' = [type |-> "session.idle", sessionID |-> sessionID,
                     gitOk |-> gitOk, apiOk |-> apiOk,
                     sent |-> Len(prompts') - Len(prompts)]
    /\ UNCHANGED <<earlier, lastSpinnerUpdate, inFlight, configAt, present, xdgPresets,
                   xdgConfigHome, messages, pc, findArgs, findResult, loadResult>>

\* what no handler but session.idle changes
Served(type, sessionID) ==
    /\ SpinnerBounded'
    /\ lastEvent' = Event(type, sessionID)
    /\ lastFiles' = <<>>
    /\ lastEvents' = <<>>
    /\ result' = Null
    /\ UNCHANGED <<earlier, prompts, inFlight, configAt, present, xdgPresets, xdgConfigHome,
                   messages, pc, findArgs, findResult, loadResult>>

\* the handler of session.status
SessionStatus(sessionID, fetched, status) ==
    /\ pc = "serving"
    /\ sessionDirectories' = CacheOf(sessionID, fetched)
    /\ askingState' = IF status = "busy" /\ MapGet(askingState, sessionID, FALSE)
                      THEN MapDelete(askingState, sessionID) ELSE askingState
    /\ spinnerState' =
          IF status \in {"busy", "retry"}
          THEN updateZellijTab(spinnerState, "active", DirOf(sessionID, fetched), sessionID)
          ELSE IF status = "idle"
          THEN updateZellijTab(spinnerState, "stopped", DirOf(sessionID, fetched), sessionID)
          ELSE spinnerState
    /\ call' =
          IF status \in {"busy", "retry"}
          THEN TabUpdate(spinnerState, "active", DirOf(sessionID, fetched), sessionID)
          ELSE IF status = "idle"
          THEN TabUpdate(spinnerState, "stopped", DirOf(sessionID, fetched), sessionID)
          ELSE NoCall
    /\ UNCHANGED lastSpinnerUpdate
    /\ Served("session.status", sessionID)

\* the handler of permission.updated
PermissionUpdated(sessionID, fetched) ==
    /\ pc = "serving"
    /\ sessionDirectories' = CacheOf(sessionID, fetched)
    /\ askingState' = MapSet(askingState, sessionID, TRUE)
    /\ spinnerState' = updateZellijTab(spinnerState, "asking", DirOf(sessionID, fetched), sessionID)
    /\ call' = TabUpdate(spinnerState, "asking", DirOf(sessionID, fetched), sessionID)
    /\ UNCHANGED lastSpinnerUpdate
    /\ Served("permission.updated", sessionID)

\* the handler of permission.replied
PermissionReplied(sessionID, fetched) ==
    /\ pc = "serving"
    /\ sessionDirectories' = CacheOf(sessionID, fetched)
    /\ askingState' = IF MapGet(askingState, sessionID, FALSE)
                      THEN MapDelete(askingState, sessionID) ELSE askingState
    /\ spinnerState' =
          IF MapGet(askingState, sessionID, FALSE)
          THEN updateZellijTab(spinnerState, "active", DirOf(sessionID, fetched), sessionID)
          ELSE spinnerState
    /\ call' =
          IF MapGet(askingState, sessionID, FALSE)
          THEN TabUpdate(spinnerState, "active", DirOf(sessionID, fetched), sessionID)
          ELSE NoCall
    /\ UNCHANGED lastSpinnerUpdate
    /\ Served("permission.replied", sessionID)

\* the spinner is due: the session is not asking and the last update is
\* SPINNER_THROTTLE_MS old
SpinnerDue(sessionID, now) ==
    /\ ~MapGet(askingState, sessionID, FALSE)
    /\ now - MapGet(lastSpinnerUpdate, sessionID, 0) >= SPINNER_THROTTLE_MS

\* the handler of message.part.updated
MessagePartUpdated(sessionID, fetched, now) ==
    /\ pc = "serving"
    /\ lastSpinnerUpdate' = IF SpinnerDue(sessionID, now)
                            THEN MapSet(lastSpinnerUpdate, sessionID, now)
                            ELSE lastSpinnerUpdate
    /\ sessionDirectories' = IF SpinnerDue(sessionID, now)
                             THEN CacheOf(sessionID, fetched) ELSE sessionDirectories
    /\ spinnerState' =
          IF SpinnerDue(sessionID, now)
          THEN updateZellijTab(spinnerState, "active", DirOf(sessionID, fetched), sessionID)
          ELSE spinnerState
    /\ call' =
          IF SpinnerDue(sessionID, now)
          THEN TabUpdate(spinnerState, "active", DirOf(sessionID, fetched), sessionID)
          ELSE NoCall
    /\ UNCHANGED askingState
    /\ Served("message.part.updated", sessionID)

\* the handler of session.deleted with every session forgotten
SessionDeletedAll(sessionID) ==
    /\ pc = "serving"
    /\ askingState' = MapDelete(askingState, sessionID)
    /\ sessionDirectories' = NoSessions
    /\ lastSpinnerUpdate' = MapDelete(lastSpinnerUpdate, sessionID)
    /\ spinnerState' = cleanupSession(spinnerState, sessionID)
    /\ call' = NoCall
    /\ Served("session.deleted", sessionID)

\* the handler of session.deleted
SessionDeleted(sessionID) ==
    /\ pc = "serving"
    /\ askingState' = MapDelete(askingState, sessionID)
    /\ sessionDirectories' = MapDelete(sessionDirectories, sessionID)
    /\ lastSpinnerUpdate' = MapDelete(lastSpinnerUpdate, sessionID)
    /\ spinnerState' = cleanupSession(spinnerState, sessionID)
    /\ call' = NoCall
    /\ Served("session.deleted", sessionID)

\* the hook tool.execute.before
ToolExecuteBefore(sessionID, fetched, tool) ==
    /\ pc = "serving"
    /\ sessionDirectories' = CacheOf(sessionID, fetched)
    /\ askingState' = IF isQuestionTool(tool) THEN MapSet(askingState, sessionID, TRUE)
                      ELSE MapDelete(askingState, sessionID)
    /\ spinnerState' =
          updateZellijTab(spinnerState, IF isQuestionTool(tool) THEN "asking" ELSE "active",
                          DirOf(sessionID, fetched), sessionID)
    /\ call' = TabUpdate(spinnerState, IF isQuestionTool(tool) THEN "asking" ELSE "active",
                         DirOf(sessionID, fetched), sessionID)
    /\ UNCHANGED lastSpinnerUpdate
    /\ Served("tool.execute.before", sessionID)

\* the hook tool.execute.after
ToolExecuteAfter(sessionID, fetched, tool) ==
    /\ pc = "serving"
    /\ sessionDirectories' = CacheOf(sessionID, fetched)
    /\ spinnerState' =
          IF isQuestionTool(tool) THEN spinnerState
          ELSE updateZellijTab(spinnerState, "active", DirOf(sessionID, fetched), sessionID)
    /\ call' =
          IF isQuestionTool(tool) THEN NoCall
          ELSE TabUpdate(spinnerState, "active", DirOf(sessionID, fetched), sessionID)
    /\ UNCHANGED <<askingState, lastSpinnerUpdate>>
    /\ Served("tool.execute.after", sessionID)

\* the repository of the sessions: /t/r holds a config (DocR), /t/r/b one
\* that does not load
PluginLayout ==
    [d \in Dirs |-> IF d = DirR THEN Some(DocR) ELSE IF d = DirB THEN Some(DocBroken) ELSE None]

\* what git status lists, and the transcripts of the sessions
StopFiles ==
    { <<>>,
      << <<"a","/","x",".","t","s">>, <<"a","/","v">> >>,
      << <<"b","/","x",".","t","s">> >> }
StopEdit == ToolPart(<<"e","d","i","t">>, "completed", None, Some(<<"/","t","/","r","/","a","/","x",".","t","s">>))
StopBash(command) == ToolPart(<<"b","a","s","h">>, "completed", Some(command), None)
StopTranscripts ==
    { <<>>,
      << <<StopEdit>> >>,
      << <<StopEdit>>, <<StopBash(<<"f","m","t"," ","t","s","t">>)>> >> }

InitPlugin ==
    /\ configAt = PluginLayout
    /\ present = {}
    /\ xdgPresets = NoPresets
    /\ xdgConfigHome = None
    /\ messages = <<>>
    /\ pc = "serving"
    /\ lastFiles = <<>>
    /\ lastEvents = <<>>
    /\ result = Null
    /\ findArgs = NoFind
    /\ findResult = NotFound
    /\ loadResult = NotLoaded
    /\ Idle

\* the host reports idle sessions
NextStop ==
    \E sessionID \in Sessions, fetched \in Fetches, files \in StopFiles, gitOk \in BOOLEAN,
       transcript \in StopTranscripts, apiOk \in BOOLEAN :
       SessionIdle(sessionID, fetched, files, gitOk, transcript, apiOk)

SpecStop == InitPlugin /\ [][NextStop]_vars

\* the host reports every event of a session that changes no file
NextPlugin ==
    \/ \E sessionID \in Sessions, fetched \in Fetches :
          SessionIdle(sessionID, fetched, <<>>, TRUE, <<>>, TRUE)
    \/ \E sessionID \in Sessions, fetched \in Fetches,
          status \in {"busy", "idle", "retry", "other"} :
          SessionStatus(sessionID, fetched, status)
    \/ \E sessionID \in Sessions, fetched \in Fetches : PermissionUpdated(sessionID, fetched)
    \/ \E sessionID \in Sessions, fetched \in Fetches : PermissionReplied(sessionID, fetched)
    \/ \E sessionID \in Sessions, fetched \in Fetches, now \in Clock :
          MessagePartUpdated(sessionID, fetched, now)
    \/ \E sessionID \in Sessions : SessionDeleted(sessionID)
    \/ \E sessionID \in Sessions, fetched \in Fetches, tool \in Tools :
          ToolExecuteBefore(sessionID, fetched, tool)
    \/ \E sessionID \in Sessions, fetched \in Fetches, tool \in Tools :
          ToolExecuteAfter(sessionID, fetched, tool)

SpecPlugin == InitPlugin /\ [][NextPlugin]_vars

(* ------------------------- groupFilesByConfig alone ------------------- *)

\* the longest list of changed files
MaxFiles == 3

GroupFiles ==
    { <<"a","/","x",".","t","s">>, <<"b","/","x",".","t","s">>, <<"a","/","v">>,
      <<"x",".","t","s">> }

InitGroup ==
    /\ configAt \in Layouts
    /\ present = PresentFiles
    /\ xdgPresets = NoPresets
    /\ xdgConfigHome = None
    /\ messages = <<>>
    /\ pc = "grouping"
    /\ lastFiles = <<>>
    /\ lastEvents = <<>>
    /\ result = Null
    /\ findArgs = NoFind
    /\ findResult = NotFound
    /\ loadResult = NotLoaded
    /\ Idle

\* groupFilesByConfig is called
Group(changedFiles) ==
    /\ pc = "grouping"
    /\ pc' = "grouped"
    /\ lastFiles' = changedFiles
    /\ call' = [fn |-> "groupFilesByConfig", args |-> <<changedFiles, RepoRoot>>,
                value |-> groupFilesByConfig(changedFiles, RepoRoot)]
    /\ UNCHANGED <<earlier, pluginVars, configAt, present, xdgPresets, xdgConfigHome, messages,
                   lastEvents, result, findArgs, findResult, loadResult>>

NextGroup == \E changedFiles \in SeqsUpTo(GroupFiles, MaxFiles) : Group(changedFiles)

SpecGroup == InitGroup /\ [][NextGroup]_vars

(* ------------------- the engine on nested configs -------------------- *)

\* changed-file lists with files of the repository's root and of /t/r/a
NestFiles ==
    { << <<"x",".","t","s">> >>,
      << <<"a","/","x",".","t","s">> >>,
      << <<"x",".","t","s">>, <<"a","/","x",".","t","s">> >>,
      << <<"b","/","x",".","t","s">>, <<"a","/","v">> >> }

NextNest ==
    \/ \E part \in ToolCalls : ToolCall(part)
    \/ \E changedFiles \in NestFiles : RunChecks(changedFiles)

SpecNest == Init /\ [][NextNest]_vars

(* ---------------- the engine on rules taken from presets ------------- *)

\* a check of a preset file without a `when`
PresetNoWhen ==
    [name |-> <<"n","w">>, hasWhen |-> FALSE, paths_changed |-> <<>>, path_exists |-> <<>>,
     hasThen |-> TRUE, ensure_commands |-> Some(<<PatFmt>>), ensure_changed |-> None]

\* the config of /t/r takes all its checks from preset p; the file of p
\* holds a valid check, one without `then`, one without `when`, or two
DocPresetOnly == Doc(Some(<<PresetP>>), None)
RaisePresets ==
    { PresetFile(HomeConfig, PresetP) :> Doc(None, Some(cs)) :
        cs \in {<<PresetGood>>, <<PresetBad>>, <<PresetNoWhen>>, <<PresetGood, PresetBad>>} }

InitRaise ==
    /\ configAt = [d \in Dirs |-> IF d = DirR THEN Some(DocPresetOnly) ELSE None]
    /\ present = PresentFiles
    /\ xdgPresets \in RaisePresets
    /\ xdgConfigHome = None
    /\ messages = <<>>
    /\ pc = "acting"
    /\ lastFiles = <<>>
    /\ lastEvents = <<>>
    /\ result = Null
    /\ findArgs = NoFind
    /\ findResult = NotFound
    /\ loadResult = NotLoaded
    /\ Idle

NextRaise ==
    \/ \E part \in ReCalls : ToolCall(part)
    \/ \E changedFiles \in ReFiles : RunChecks(changedFiles)

SpecRaise == InitRaise /\ [][NextRaise]_vars

(* ------------------------ getSessionDirectory alone ------------------ *)

\* the directory the host holds for each session; client.session.get
\* answers with it, with a session that carries no directory, or fails
DirSessions == Sessions \cup {"s3"}
HostDirectory(sessionID) ==
    IF sessionID = "s1" THEN <<"/","t","/","r","/","a">>
    ELSE IF sessionID = "s2" THEN <<"/","t","/","r","/","b">>
    ELSE <<"/","t","/","r","2">>
HostFetches(sessionID) == {None, Some(<<>>), Some(HostDirectory(sessionID))}

\* a handler asks for the directory of a session: the call is recorded with
\* the cache it found
GetDirectory(sessionID, fetched) ==
    /\ pc = "serving"
    /\ call' = [fn |-> "getSessionDirectory",
                args |-> <<sessionDirectories, sessionID, fetched, PluginDirectory>>,
                value |-> getSessionDirectory(sessionDirectories, sessionID, fetched, PluginDirectory)]
    /\ sessionDirectories' = call'.value.cache
    /\ UNCHANGED <<askingState, lastSpinnerUpdate, spinnerState, prompts, lastEvent, inFlight, earlier,
                   configAt, present, xdgPresets, xdgConfigHome, messages, pc, lastFiles,
                   lastEvents, result, findArgs, findResult, loadResult>>

NextDir ==
    \/ \E sessionID \in DirSessions : \E fetched \in HostFetches(sessionID) :
          GetDirectory(sessionID, fetched)
    \/ \E sessionID \in DirSessions : SessionDeleted(sessionID)

SpecDir == InitPlugin /\ [][NextDir]_vars

(* --------------------------- updateZellijTab alone ------------------- *)

\* the directories of the sessions: one that gives the tab name r, one
\* that gives none
TabCwds == {PluginDirectory, <<"/","t","m","p">>}

\* a handler updates the tab of a session
UpdateTab(state, cwd, sessionID) ==
    /\ pc = "serving"
    /\ call' = [fn |-> "updateZellijTab", args |-> <<spinnerState, state, cwd, sessionID>>,
                value |-> tabPrefix(spinnerState, state, cwd, sessionID)]
    /\ spinnerState' = updateZellijTab(spinnerState, state, cwd, sessionID)
    /\ UNCHANGED <<askingState, sessionDirectories, lastSpinnerUpdate, prompts, lastEvent, inFlight, earlier,
                   configAt, present, xdgPresets, xdgConfigHome, messages, pc, lastFiles,
                   lastEvents, result, findArgs, findResult, loadResult>>

NextTab ==
    \E state \in {"active", "asking", "stopped"}, cwd \in TabCwds, sessionID \in Sessions :
        UpdateTab(state, cwd, sessionID)

SpecTab == InitPlugin /\ [][NextTab]_vars

(* ---------------------- handlers suspended at an await --------------- *)

\* message.part.updated up to its first await, in getSessionDirectory: the
\* session is not asking and the spinner is due, the time of the update is
\* stored, and the handler waits for client.session.get
MessagePartBegin(sessionID, now) ==
    /\ pc = "serving"
    /\ sessionID \notin inFlight.ended
    /\ \A h \in inFlight.handlers : h.sessionID # sessionID
    /\ SpinnerDue(sessionID, now)
    /\ lastSpinnerUpdate' = MapSet(lastSpinnerUpdate, sessionID, now)
    /\ inFlight' = [inFlight EXCEPT !.handlers =
                        @ \cup {[type |-> "message.part.updated", sessionID |-> sessionID]}]
    /\ UNCHANGED <<askingState, sessionDirectories, spinnerState, prompts, lastEvent, call,
                   earlier, configAt, present, xdgPresets, xdgConfigHome, messages, pc,
                   lastFiles, lastEvents, result, findArgs, findResult, loadResult>>

\* the handler goes on when client.session.get has answered: the directory
\* is cached if there is one, and the tab is updated
MessagePartResume(h, fetched) ==
    /\ pc = "serving"
    /\ h \in inFlight.handlers
    /\ inFlight' = [inFlight EXCEPT !.handlers = @ \ {h}]
    /\ sessionDirectories' = CacheOf(h.sessionID, fetched)
    /\ spinnerState' =
          updateZellijTab(spinnerState, "active", DirOf(h.sessionID, fetched), h.sessionID)
    /\ call' = TabUpdate(spinnerState, "active", DirOf(h.sessionID, fetched), h.sessionID)
    /\ SpinnerBounded'
    /\ lastEvent' = Event(h.type, h.sessionID)
    /\ UNCHANGED <<askingState, lastSpinnerUpdate, prompts, earlier, configAt, present,
                   xdgPresets, xdgConfigHome, messages, pc, lastFiles, lastEvents, result,
                   findArgs, findResult, loadResult>>

\* the handler of session.deleted, which has no await, while other handlers
\* are suspended; the host sends no event for the session afterwards
SessionDeletedInFlight(sessionID) ==
    /\ pc = "serving"
    /\ sessionID \notin inFlight.ended
    /\ inFlight' = [inFlight EXCEPT !.ended = @ \cup {sessionID}]
    /\ askingState' = MapDelete(askingState, sessionID)
    /\ sessionDirectories' = MapDelete(sessionDirectories, sessionID)
    /\ lastSpinnerUpdate' = MapDelete(lastSpinnerUpdate, sessionID)
    /\ spinnerState' = cleanupSession(spinnerState, sessionID)
    /\ call' = NoCall
    /\ lastEvent' = Event("session.deleted", sessionID)
    /\ UNCHANGED <<prompts, earlier, configAt, present, xdgPresets, xdgConfigHome, messages,
                   pc, lastFiles, lastEvents, result, findArgs, findResult, loadResult>>

NextFlight ==
    \/ \E sessionID \in Sessions, now \in Clock : MessagePartBegin(sessionID, now)
    \/ \E h \in inFlight.handlers, fetched \in Fetches : MessagePartResume(h, fetched)
    \/ \E sessionID \in Sessions \ inFlight.ended, fetched \in Fetches :
          PermissionUpdated(sessionID, fetched)
    \/ \E sessionID \in Sessions : SessionDeletedInFlight(sessionID)

SpecFlight == InitPlugin /\ [][NextFlight]_vars

(* ------------------------------ properties ---------------------------- *)

\* the rules of the last run: each with its config (loaded), the files of
\* its group and its position in them
Rules ==
    LET G == groupFilesByConfig(lastFiles, RepoRoot).groups
    IN  UNION {{[loaded |-> G[i].loaded, files |-> G[i].files, group |-> i, at |-> k,
                 check |-> G[i].loaded.config[k]] : k \in 1..Len(G[i].loaded.config)} :
               i \in 1..Len(G)}

\* what the runner makes of rule r, on the events es
OutcomeOn(r, es) == runSingleCheck(r.check, r.loaded, r.files, es, RepoRoot)
Passes(r) == OutcomeOn(r, lastEvents).error = <<>>

\* directory d is p or an ancestor of p, segment by segment
IsPrefix(a, b) == Len(a) <= Len(b) /\ SubSeq(b, 1, Len(a)) = a
Under(d, p) == IsPrefix(NormSegs(d.segs, TRUE, <<>>), NormSegs(p.segs, TRUE, <<>>))

\* event e is an Edit or Write of a path the glob of rule r matches
MatchingEdit(r, e) ==
    /\ IsEditOrWrite(e)
    /\ Truthy(e.filePath)
    /\ globMatcher(r.check, r.loaded.configDir, PathOf(e.filePath[1]))

EventSet(es) == {es[i] : i \in 1..Len(es)}
MatchingEdits(r) == {e \in EventSet(lastEvents) : MatchingEdit(r, e)}

\* rule r applies: its path_exists, if any, is on disk, one of its
\* group's files matches its glob and the session edited a matching path
GateAbsent(r) ==
    /\ r.check.path_exists # <<>>
    /\ PathJoin(r.loaded.configDir, PathOf(r.check.path_exists)) \notin present
FileMatches(r) ==
    \E i \in 1..Len(r.files) :
        globMatcher(r.check, r.loaded.configDir, PathJoin(RepoRoot, PathOf(r.files[i])))
Triggered(r) == ~GateAbsent(r) /\ FileMatches(r) /\ MatchingEdits(r) # {}

\* the position of the triggering edit: the greatest position of a matching edit
TriggerPos(r) ==
    LET at == {e.index : e \in MatchingEdits(r)}
    IN  CHOOSE n \in at : \A m \in at : m <= n

\* a Bash event whose command contains pattern p, at a position after n
RanAfter(p, n) ==
    \E e \in EventSet(lastEvents) :
        /\ e.toolName = BashName
        /\ Truthy(e.command)
        /\ Includes(e.command[1], p)
        /\ e.index > n

IsCommandsRule(r) == r.check.ensure_commands # None
IsChangedRule(r) == r.check.ensure_commands = None /\ r.check.ensure_changed # None
Patterns(r) == r.check.ensure_commands[1]
Required(r) == r.check.ensure_changed[1]
Reverse(q) == [i \in 1..Len(q) |-> q[Len(q) + 1 - i]]

\* rule r with its patterns in the opposite order
Reversed(r) == [r EXCEPT !.check.ensure_commands = Some(Reverse(Patterns(r)))]

\* C1: a triggered ensure_commands rule passes exactly when every one of
\* its patterns is contained in the command of a Bash event at a position
\* strictly after the triggering edit; the order of the patterns does not
\* change whether it passes.
C1_CommandsAfterTrigger ==
    pc = "checked" =>
        \A r \in Rules :
            (IsCommandsRule(r) /\ Triggered(r)) =>
                LET passes == Passes(r)
                    n == TriggerPos(r)
                IN  /\ passes <=> \A k \in 1..Len(Patterns(r)) : RanAfter(Patterns(r)[k], n)
                    /\ Passes(Reversed(r)) <=> passes

\* a run where a triggered rule with two patterns passes, both having run
\* after the triggering edit
C1_Witness ==
    /\ pc = "checked"
    /\ \E r \in Rules :
        /\ IsCommandsRule(r) /\ Len(Patterns(r)) = 2
        /\ Triggered(r)
        /\ Passes(r)

\* C2: the triggering edit is the last matching one: when some matching
\* Edit/Write event has no later Bash event containing one of the rule's
\* patterns, the triggered ensure_commands rule fails, whatever ran before.
C2_LastEditTriggers ==
    pc = "checked" =>
        \A r \in Rules :
            (/\ IsCommandsRule(r) /\ Triggered(r)
             /\ \E k \in 1..Len(Patterns(r)) : \E e \in MatchingEdits(r) :
                    ~RanAfter(Patterns(r)[k], e.index))
            => ~Passes(r)

\* the name of the rule a failure message is about
FailedName == result.message[2]

\* a run where the commands ran between two matching edits, and the rule
\* is the one reported
C2_Witness ==
    /\ pc = "checked"
    /\ result.kind = "message"
    /\ \E r \in Rules :
        /\ IsCommandsRule(r) /\ Triggered(r)
        /\ FailedName = r.check.name
        /\ \E e1, e2 \in MatchingEdits(r) :
            /\ e1.index < e2.index
            /\ \A k \in 1..Len(Patterns(r)) : RanAfter(Patterns(r)[k], e1.index)

\* the transcript with messages i and j exchanged
Swapped(i, j) ==
    [n \in 1..Len(messages) |->
        IF n = i THEN messages[j] ELSE IF n = j THEN messages[i] ELSE messages[n]]

\* Edit/Write event e targets required path q of rule r
Touches(r, e, q) ==
    /\ IsEditOrWrite(e)
    /\ Truthy(e.filePath)
    /\ Resolve(PathOf(e.filePath[1])) = Resolve2(r.loaded.configDir, PathOf(q))

\* C3: a triggered ensure_changed rule passes exactly when an Edit/Write
\* event anywhere in the log targets one of its required paths (resolved
\* against the config dir); exchanging two neighbouring events of the log
\* leaves the rule's outcome as it is (every reordering of a log is a
\* chain of such exchanges, and every log of the universe is reached).
C3_ChangedAnywhere ==
    pc = "checked" =>
        \A r \in Rules :
            (IsChangedRule(r) /\ Triggered(r)) =>
                LET outcome == OutcomeOn(r, lastEvents)
                IN  /\ outcome.error = <<>> <=>
                         \E k \in 1..Len(Required(r)) : \E e \in EventSet(lastEvents) :
                             Touches(r, e, Required(r)[k])
                    /\ \A i \in 1..(Len(messages) - 1) :
                         OutcomeOn(r, extractToolEvents(Swapped(i, i + 1))) = outcome

\* a run where the required path was edited BEFORE the triggering edit and
\* the rule passes
C3_Witness ==
    /\ pc = "checked"
    /\ \E r \in Rules :
        /\ IsChangedRule(r) /\ Triggered(r)
        /\ Passes(r)
        /\ \E e \in EventSet(lastEvents) :
            /\ \E k \in 1..Len(Required(r)) : Touches(r, e, Required(r)[k])
            /\ e.index < TriggerPos(r)

\* C4: a rule whose path_exists names a path that is not on disk never
\* fails, and is never the rule runChecks reports.
C4_AbsentPathNeverFails ==
    pc = "checked" =>
        \A r \in Rules :
            GateAbsent(r) =>
                /\ Passes(r)
                /\ result.kind = "message" => FailedName # r.check.name

\* a run where the gated rule would have failed: a file of its group
\* matches, the session edited a matching path and none of its required paths
C4_Witness ==
    /\ pc = "checked"
    /\ result = Null
    /\ \E r \in Rules :
        /\ GateAbsent(r)
        /\ FileMatches(r)
        /\ MatchingEdits(r) # {}
        /\ \A k \in 1..Len(Required(r)) : \A e \in EventSet(lastEvents) :
             ~Touches(r, e, Required(r)[k])

\* the nearest config of changed file i of the last run
Near(i) == findNearestConfig(PathJoin(RepoRoot, PathOf(lastFiles[i])), RepoRoot)

\* the rules that fail: [first, at] orders them, by the place of the first
\* changed file that has their config as its nearest one, and then by
\* their place in the document
Failing ==
    LET governed == {n \in {[i |-> i, near |-> Near(i)] : i \in 1..Len(lastFiles)} :
                        n.near.kind = "config"}
        sameAs(n) == {m \in governed : m.near.configPath = n.near.configPath}
        firsts == {n \in governed : \A m \in sameAs(n) : n.i <= m.i}
        filesOf(n) == SelectSeq(lastFiles, LAMBDA f : \E m \in sameAs(n) : lastFiles[m.i] = f)
    IN  {f \in UNION {{[first |-> n.i, at |-> k,
                        outcome |-> runSingleCheck(n.near.config[k], n.near, filesOf(n),
                                                   lastEvents, RepoRoot)] :
                       k \in 1..Len(n.near.config)} : n \in firsts} :
           f.outcome.error # <<>>}
Before(f1, f2) == f1.first < f2.first \/ (f1.first = f2.first /\ f1.at <= f2.at)

\* C5: runChecks returns null exactly when no rule of any group fails, and
\* otherwise the message of the first failing rule, groups ordered by the
\* place of their first changed file in the list and rules by their place
\* in the document.
C5_FirstFailure ==
    pc = "checked" =>
        LET failing == Failing
        IN  IF failing = {} THEN result = Null
            ELSE \E f \in failing :
                    /\ \A f2 \in failing : Before(f, f2)
                    /\ result = Message(f.outcome.error)

\* a run where rules of two groups fail, and the one reported belongs to
\* the group whose file comes first, which is not the first changed file's
\* directory in path order
C5_Witness ==
    /\ pc = "checked"
    /\ result.kind = "message"
    /\ \E f1, f2 \in Failing : f1.first = 1 /\ f2.first = 2
    /\ lastFiles[1] = <<"b","/","x",".","t","s">>

\* C6: a rule none of whose group's files matches paths_changed does not
\* fail, and neither does a rule whose glob no Edit/Write event of the log
\* matches.
C6_SkippedWhenNotEdited ==
    pc = "checked" =>
        \A r \in Rules :
            (~FileMatches(r) \/ MatchingEdits(r) = {}) =>
                /\ Passes(r)
                /\ result.kind = "message" => FailedName # r.check.name

\* a run where a file of an ensure_commands rule's group matches, the
\* session ran none of its commands and edited no matching path
C6_Witness ==
    /\ pc = "checked"
    /\ result = Null
    /\ lastEvents # <<>>
    /\ \E r \in Rules :
        /\ IsCommandsRule(r) /\ ~GateAbsent(r)
        /\ FileMatches(r)
        /\ MatchingEdits(r) = {}
        /\ \A k \in 1..Len(Patterns(r)) : ~RanAfter(Patterns(r)[k], -1)

\* the Edit/Write events of the last run
Edits == {e \in EventSet(lastEvents) : IsEditOrWrite(e) /\ Truthy(e.filePath)}

\* the rules of the last run, each with its outcome
Judged == {[rule |-> r, outcome |-> OutcomeOn(r, lastEvents)] : r \in Rules}

\* the verdict of the rules of group i alone, among the judged rules js
GroupAlone(js, i) ==
    LET mine == {j \in js : j.rule.group = i /\ j.outcome.error # <<>>}
    IN  IF mine = {} THEN Null
        ELSE Message((CHOOSE j \in mine : \A j2 \in mine : j.rule.at <= j2.rule.at).outcome.error)

\* C7: a rule never fails unless an Edit/Write event targets a path in the
\* tree of its own config directory: edits confined to a sibling package
\* never trigger it; and when the rules of every other group pass, the
\* verdict is the one of the group's own rules.
C7_MonorepoIsolation ==
    pc = "checked" =>
        LET js == Judged
            edits == Edits
        IN  \A j \in js :
              /\ (\A e \in edits : ~Under(j.rule.loaded.configDir, PathOf(e.filePath[1])))
                    => j.outcome.error = <<>>
              /\ (\A j2 \in js : j2.rule.group # j.rule.group => j2.outcome.error = <<>>)
                    => result = GroupAlone(js, j.rule.group)

\* a run with two sibling packages changed, every edit in one of them, its
\* rules passing and nothing reported
C7_Witness ==
    /\ pc = "checked"
    /\ result = Null
    /\ \E r1, r2 \in Rules :
        /\ r1.loaded.configDir = DirA /\ r2.loaded.configDir = DirB
        /\ FileMatches(r1) /\ IsCommandsRule(r1)
        /\ Triggered(r2)
    /\ Edits # {}
    /\ \A e \in Edits : Under(DirB, PathOf(e.filePath[1]))

\* changed file f has a governing config: a directory between its own and
\* the repository root, both included, holds one
HasGoverningConfig(f) ==
    \E d \in Dirs :
        /\ configAt[d] # None
        /\ Under(RepoRoot, d)
        /\ Under(d, Dirname(PathJoin(RepoRoot, PathOf(f))))

\* C10: changed files without a governing config are dropped: the result
\* is the result on the list without them, never an error, and it is null
\* when no changed file has a governing config.
C10_UngovernedDropped ==
    pc = "checked" =>
        /\ result.kind # "throw"
        /\ result = runChecks(SelectSeq(lastFiles, HasGoverningConfig), lastEvents, RepoRoot)
        /\ (\A i \in 1..Len(lastFiles) : ~HasGoverningConfig(lastFiles[i])) => result = Null

\* a run where the first changed file has no governing config and a rule
\* of a later file's config fails
C10_Witness ==
    /\ pc = "checked"
    /\ result.kind = "message"
    /\ Len(lastFiles) = 2
    /\ ~HasGoverningConfig(lastFiles[1])
    /\ HasGoverningConfig(lastFiles[2])

(* ------------------ properties of findNearestConfig ------------------- *)

\* the directories from the file's own up to the root, both included
Chain == {d \in Dirs : Under(findArgs.repoRoot, d) /\ Under(d, Dirname(Resolve(findArgs.filePath)))}
WithConfig == {d \in Chain : configAt[d] # None}
Deepest == CHOOSE d \in WithConfig : \A d2 \in WithConfig : Len(d2.segs) <= Len(d.segs)

\* C8: for a file in the tree of the root, findNearestConfig returns null
\* exactly when no directory from the file's own up to the root holds a
\* config; otherwise its answer is about the deepest of those that does:
\* that directory's config when it loads, its error when it does not.
C8_NearestConfig ==
    (pc = "found" /\ Under(findArgs.repoRoot, Resolve(findArgs.filePath))) =>
        /\ findResult.kind = "null" <=> WithConfig = {}
        /\ findResult.kind = "config" =>
             /\ findResult.configDir = Deepest
             /\ findResult.config = configAt[Deepest][1].checks[1]
        /\ findResult.kind = "throw" => configAt[Deepest][1] = DocBroken

\* a call where two directories of the chain hold a config, /t holds one
\* as well, and the one of the file's own directory is returned
C8_Witness ==
    /\ pc = "found"
    /\ Under(findArgs.repoRoot, Resolve(findArgs.filePath))
    /\ Cardinality(WithConfig) = 2
    /\ findResult.kind = "config"
    /\ findResult.configDir = DirA
    /\ configAt[DirT] # None

\* C9: findNearestConfig never returns a config whose directory is neither
\* the root nor a directory below it.
C9_NeverOutsideRoot ==
    (pc = "found" /\ findResult.kind = "config") =>
        Under(findArgs.repoRoot, findResult.configDir)

(* --------------------- properties of loadConfig ----------------------- *)

\* the document loadConfig was given, its local checks and its presets
TheDoc == configAt[DirR][1]
LocalChecks == IF TheDoc.parse = "ok" /\ TheDoc.checks # None THEN TheDoc.checks[1] ELSE <<>>
PresetList == IF TheDoc.parse = "ok" /\ TheDoc.presets # None THEN TheDoc.presets[1] ELSE <<>>

\* the override directory's file for a preset name, and what it expands to
OverrideDir == IF xdgConfigHome = None THEN HomeConfig ELSE xdgConfigHome[1]
HasOverride(name) == PresetFile(OverrideDir, name) \in DOMAIN xdgPresets
OverrideDoc(name) == xdgPresets[PresetFile(OverrideDir, name)]
HasChecks(name) ==
    /\ HasOverride(name)
    /\ OverrideDoc(name).parse = "ok"
    /\ OverrideDoc(name).checks # None
RECURSIVE Expansion(_)
Expansion(names) ==
    IF names = <<>> THEN <<>>
    ELSE OverrideDoc(Head(names)).checks[1] \o Expansion(Tail(names))

\* every preset of the document is a file with checks in the override directory
PresetsResolve == \A i \in 1..Len(PresetList) : HasChecks(PresetList[i])

\* what is wrong with a check
NoName(c) == c.name = <<>>
NoTrigger(c) == ~c.hasWhen \/ c.paths_changed = <<>>
NoObligation(c) == ~c.hasThen \/ (c.ensure_commands = None /\ c.ensure_changed = None)
Populated(list) == list # None /\ list[1] # <<>>
BothObligations(c) == Populated(c.ensure_commands) /\ Populated(c.ensure_changed)

\* nothing is wrong with a check, however its lists are read: it has a
\* name, a trigger and one obligation, a list that is not empty
Clean(c) ==
    /\ ~NoName(c) /\ ~NoTrigger(c) /\ c.hasThen
    /\ \/ Populated(c.ensure_commands) /\ c.ensure_changed = None
       \/ Populated(c.ensure_changed) /\ c.ensure_commands = None

\* the first local check that is not clean, when validation gets to it
Unclean == {i \in 1..Len(LocalChecks) : ~Clean(LocalChecks[i])}
FirstUnclean == LocalChecks[CHOOSE i \in Unclean : \A j \in Unclean : i <= j]
ValidationReached ==
    /\ pc = "loaded"
    /\ TheDoc.parse = "ok"
    /\ PresetsResolve
    /\ Unclean # {}

\* the kinds of validation errors, told by their messages
IsMissingName(e) == Len(e) = 3 /\ e[3] = ": check missing 'name'"
IsMissingTrigger(e, c) ==
    Len(e) = 5 /\ e[4] = c.name /\ e[5] = "' missing 'when.paths_changed'"
IsMissingObligation(e, c) ==
    /\ Len(e) = 5 /\ e[4] = c.name
    /\ e[5] \in {"' missing 'then'",
                 "' must have 'then.ensure_commands' or 'then.ensure_changed'"}
IsConflict(e, c) ==
    /\ Len(e) = 5 /\ e[4] = c.name
    /\ e[5] = "' cannot have both 'then.ensure_commands' and 'then.ensure_changed'"

\* C11: validation reports one error, the earliest in the order name,
\* when.paths_changed, missing obligation, both obligations: for the first
\* local check with something wrong, a missing name is reported whatever
\* else is wrong, a missing trigger when the name is there, a missing
\* obligation when both are there, and a conflict only after those.
C11_ValidationOrder ==
    ValidationReached =>
        LET c == FirstUnclean
            e == loadResult.error
        IN  /\ NoName(c) => (loadResult.kind = "throw" /\ IsMissingName(e))
            /\ (~NoName(c) /\ NoTrigger(c)) =>
                    (loadResult.kind = "throw" /\ IsMissingTrigger(e, c))
            /\ (~NoName(c) /\ ~NoTrigger(c) /\ NoObligation(c)) =>
                    (loadResult.kind = "throw" /\ IsMissingObligation(e, c))
            /\ (~NoName(c) /\ ~NoTrigger(c) /\ BothObligations(c)) =>
                    (loadResult.kind = "throw" /\ IsConflict(e, c))

\* a load where the second local check has no name, no trigger and no
\* obligation, and the missing name is what is reported
C11_Witness ==
    /\ ValidationReached
    /\ Len(LocalChecks) = 2 /\ Clean(LocalChecks[1])
    /\ NoName(FirstUnclean) /\ NoTrigger(FirstUnclean) /\ NoObligation(FirstUnclean)
    /\ loadResult.kind = "throw"
    /\ IsMissingName(loadResult.error)

\* C12: a local check none of whose obligation lists is a non-empty list
\* does not load.
C12_EmptyObligationRejected ==
    (/\ pc = "loaded"
     /\ \E i \in 1..Len(LocalChecks) :
            /\ ~Populated(LocalChecks[i].ensure_commands)
            /\ ~Populated(LocalChecks[i].ensure_changed))
    => loadResult.kind = "throw"

\* C13: in a config that loaded, every local check has exactly one of its
\* obligation lists populated; and a local check with both, when validation
\* gets to it, fails the load with the 'cannot have both' error.
C13_ExactlyOneObligation ==
    /\ (pc = "loaded" /\ loadResult.kind = "ok") =>
          \A i \in 1..Len(LocalChecks) :
              Populated(LocalChecks[i].ensure_commands)
                  # Populated(LocalChecks[i].ensure_changed)
    /\ (/\ ValidationReached
        /\ ~NoName(FirstUnclean) /\ ~NoTrigger(FirstUnclean)
        /\ BothObligations(FirstUnclean))
       => (loadResult.kind = "throw" /\ IsConflict(loadResult.error, FirstUnclean))

IsNoChecks(e) == Len(e) = 3 /\ e[3] = ": no checks defined (add 'presets' or 'checks')"

\* C14: a document that yields no rule after the expansion of its presets
\* fails to load with the 'no checks defined' error: an empty document, a
\* document with neither presets nor checks, and one whose presets and
\* checks are there but hold no rule; no load ever returns an empty list.
C14_NoChecksDefined ==
    pc = "loaded" =>
        /\ (/\ TheDoc.parse # "error"
            /\ PresetsResolve
            /\ Expansion(PresetList) \o LocalChecks = <<>>)
           => (loadResult.kind = "throw" /\ IsNoChecks(loadResult.error))
        /\ loadResult.kind = "ok" => loadResult.checks # <<>>

\* a load of a document that lists a preset and has an empty list of
\* checks, the preset's file holding an empty list as well
C14_Witness ==
    /\ pc = "loaded"
    /\ TheDoc.parse = "ok"
    /\ PresetList # <<>> /\ PresetsResolve
    /\ TheDoc.checks = Some(<<>>)
    /\ Expansion(PresetList) = <<>>
    /\ loadResult.kind = "throw"
    /\ IsNoChecks(loadResult.error)

IsValidationError(e) ==
    \/ IsMissingName(e)
    \/ Len(e) = 5 /\ e[5] \in {"' missing 'when.paths_changed'", "' missing 'then'",
                             "' must have 'then.ensure_commands' or 'then.ensure_changed'",
                             "' cannot have both 'then.ensure_commands' and 'then.ensure_changed'"}

\* C15: the checks of presets are not validated: when the presets resolve
\* and nothing is wrong with the local checks, the config loads whatever
\* the presets' checks are, and they come first in the result as they are in
\* their files; a validation error is always about a local check.
C15_PresetsNotValidated ==
    pc = "loaded" =>
        /\ (/\ TheDoc.parse = "ok" /\ PresetsResolve /\ Unclean = {}
            /\ Expansion(PresetList) \o LocalChecks # <<>>)
           => /\ loadResult.kind = "ok"
              /\ SubSeq(loadResult.checks, 1, Len(Expansion(PresetList)))
                    = Expansion(PresetList)
        /\ (loadResult.kind = "throw" /\ IsValidationError(loadResult.error))
           => \E i \in 1..Len(LocalChecks) :
                 /\ ~Clean(LocalChecks[i])
                 /\ Len(loadResult.error) = 5 => loadResult.error[4] = LocalChecks[i].name

\* a load that succeeds with a preset's check that has neither a name nor
\* a `then`, and that is in the result
C15_Witness ==
    /\ pc = "loaded"
    /\ loadResult.kind = "ok"
    /\ \E i \in 1..Len(loadResult.checks) : loadResult.checks[i] = PresetBad
    /\ LocalChecks # <<>>

\* C16: the checks of a loaded config are the expansions of its presets, in
\* the order the presets are listed and each in the order of its file, a
\* preset listed twice expanded twice, followed by the local checks in
\* document order.
C16_ResolvedOrder ==
    (pc = "loaded" /\ loadResult.kind = "ok") =>
        loadResult.checks = Expansion(PresetList) \o LocalChecks

\* a load of a document that lists the same preset, of two checks, twice,
\* followed by two local checks
C16_Witness ==
    /\ pc = "loaded"
    /\ loadResult.kind = "ok"
    /\ Len(PresetList) = 2 /\ PresetList[1] = PresetList[2]
    /\ Len(Expansion(PresetList)) = 4
    /\ Len(LocalChecks) = 2
    /\ Len(loadResult.checks) = 6

\* what a preset name stands for: the checks of its file in the override
\* directory, and the built-in ones when there is no such file
Resolvable(name) == HasChecks(name) \/ (~HasOverride(name) /\ name \in DOMAIN PRESETS)
RECURSIVE ExpansionWithBuiltins(_)
ExpansionWithBuiltins(names) ==
    IF names = <<>> THEN <<>>
    ELSE (IF HasOverride(Head(names)) THEN OverrideDoc(Head(names)).checks[1]
          ELSE PRESETS[Head(names)])
         \o ExpansionWithBuiltins(Tail(names))

\* C17: a preset is looked up in the override directory first and in the
\* built-in table second: a document whose presets are all files of the
\* override directory or built-in names, and whose local checks are fine,
\* loads, a built-in name without a file standing for its built-in checks
\* and a name with a file for the checks of the file.
C17_BuiltinFallback ==
    (/\ pc = "loaded"
     /\ TheDoc.parse = "ok"
     /\ PresetList # <<>>
     /\ \A i \in 1..Len(PresetList) : Resolvable(PresetList[i])
     /\ Unclean = {}
     /\ ExpansionWithBuiltins(PresetList) \o LocalChecks # <<>>)
    => /\ loadResult.kind = "ok"
       /\ loadResult.checks = ExpansionWithBuiltins(PresetList) \o LocalChecks

\* the preset-not-found error for a name: it names the preset and the
\* path of its file in the override directory
IsPresetNotFound(e, name) ==
    /\ Len(e) = 6
    /\ e[3] = ": preset '" /\ e[4] = name /\ e[5] = "' not found at "
    /\ e[6] = OverrideDir \o <<"/","r","u","f","i","o","/","p","r","e","s","e","t","s","/">>
                \o name \o <<".","y","a","m","l">>

\* the presets of the document that neither the override directory nor
\* the built-in table has, the ones before them all being resolvable
AbsentFromBoth(name) == ~HasOverride(name) /\ name \notin DOMAIN PRESETS
FirstAbsent ==
    {i \in 1..Len(PresetList) :
        /\ AbsentFromBoth(PresetList[i])
        /\ \A j \in 1..(i - 1) : Resolvable(PresetList[j])}

\* C18: when a preset of the document is in neither the override directory
\* nor the built-in table, the load fails, returns no checks, and its error
\* names that preset and the path of its file in the override directory,
\* <config-home>/rufio/presets/<name>.yaml.
C18_PresetNotFound ==
    (pc = "loaded" /\ TheDoc.parse = "ok") =>
        \A i \in FirstAbsent :
            /\ loadResult.kind = "throw"
            /\ loadResult.checks = <<>>
            /\ IsPresetNotFound(loadResult.error, PresetList[i])

(* ----------------- properties of configuration errors ---------------- *)

\* the directory of the nearest config of changed file f, if there is one
Governing(f) ==
    {d \in Dirs : /\ configAt[d] # None
                  /\ Under(RepoRoot, d)
                  /\ Under(d, Dirname(PathJoin(RepoRoot, PathOf(f))))}
NearestDir(f) == CHOOSE d \in Governing(f) : \A d2 \in Governing(f) : Len(d2.segs) <= Len(d.segs)

\* what is wrong with a document, and the error that says so
DocPresets(doc) == IF doc.parse = "ok" /\ doc.presets # None THEN doc.presets[1] ELSE <<>>
DocChecks(doc) == IF doc.parse = "ok" /\ doc.checks # None THEN doc.checks[1] ELSE <<>>
DocInvalid(doc) ==
    \/ doc.parse # "ok"
    \/ \E i \in 1..Len(DocPresets(doc)) : ~HasChecks(DocPresets(doc)[i])
    \/ \E i \in 1..Len(DocChecks(doc)) : ~Clean(DocChecks(doc)[i])
    \/ DocPresets(doc) = <<>> /\ DocChecks(doc) = <<>>
SaysSo(e, doc, dir) ==
    /\ doc.parse = "error" => e = YamlError
    /\ doc.parse # "error" =>
          /\ Len(e) >= 3
          /\ e[2] = PathStr(dir) \o <<"/">> \o CONFIG_FILENAME
          /\ doc.parse = "null" => IsNoChecks(e)
          /\ (\E i \in 1..Len(DocPresets(doc)) : ~HasChecks(DocPresets(doc)[i]))
                => \E i \in 1..Len(DocPresets(doc)) : IsPresetNotFound(e, DocPresets(doc)[i])
          /\ (doc.parse = "ok" /\ DocPresets(doc) = <<>>) => IsValidationError(e)

\* the changed files of the last run whose nearest config does not load
Misconfigured ==
    {i \in 1..Len(lastFiles) :
        /\ Governing(lastFiles[i]) # {}
        /\ DocInvalid(configAt[NearestDir(lastFiles[i])][1])}

\* C19: when the nearest config of a changed file does not load, runChecks
\* throws the error of that config (of the first such file) and returns no
\* verdict, whatever the rules of the other configs would say; it throws in
\* no other case.
C19_ConfigErrorPropagates ==
    pc = "checked" =>
        IF Misconfigured = {} THEN result.kind # "throw"
        ELSE LET i == CHOOSE i \in Misconfigured : \A j \in Misconfigured : i <= j
                 dir == NearestDir(lastFiles[i])
             IN  /\ result.kind = "throw"
                 /\ result.message = <<>>
                 /\ SaysSo(result.error, configAt[dir][1], dir)

\* a run where the first changed file's config loads and has a rule that
\* fails on the transcript, the second file's config does not load, and
\* the error is what comes out
C19_Witness ==
    /\ pc = "checked"
    /\ result.kind = "throw"
    /\ Len(lastFiles) = 2
    /\ Misconfigured = {2}
    /\ configAt[DirA] = Some(DocA)
    /\ lastFiles[1] = <<"a","/","x",".","t","s">>
    /\ \E e \in EventSet(lastEvents) :
          IsEditOrWrite(e) /\ e.filePath = Some(<<"/","t","/","r","/","a","/","x",".","t","s">>)
    /\ ~\E e \in EventSet(lastEvents) : e.toolName = BashName

(* ----------------- properties of extractToolEvents ------------------- *)

\* the places of the transcript, message by message and part by part, that
\* hold a tool call that is completed or running, and their order
Counted ==
    {pos \in UNION {{<<i, k>> : k \in 1..Len(messages[i])} : i \in 1..Len(messages)} :
        /\ messages[pos[1]][pos[2]].type = "tool"
        /\ messages[pos[1]][pos[2]].status \in {"completed", "running"}}
Earlier(p, q) == p[1] < q[1] \/ (p[1] = q[1] /\ p[2] < q[2])
Rank(pos) == Cardinality({q \in Counted : Earlier(q, pos)})

\* event e is the event of tool part t
EventOf(e, t) ==
    LET tool == toLowerCase(t.tool)
    IN  IF tool \in {<<"b","a","s","h">>, <<"m","c","p","_","b","a","s","h">>}
             THEN e.toolName = BashName /\ e.command = t.command
        ELSE IF tool \in {<<"e","d","i","t">>, <<"m","c","p","_","e","d","i","t">>}
             THEN e.toolName = EditName /\ e.filePath = t.filePath
        ELSE IF tool \in {<<"w","r","i","t","e">>, <<"m","c","p","_","w","r","i","t","e">>}
             THEN e.toolName = WriteName /\ e.filePath = t.filePath
        ELSE e.toolName \notin {BashName, EditName, WriteName}

McpPrefix == <<"m","c","p","_">>

\* the name of the tool that a routed call, named mcp_X, stands for: X
DirectName(tool) ==
    IF StartsWith(tool, McpPrefix) THEN SubSeq(tool, Len(McpPrefix) + 1, Len(tool)) ELSE tool

\* the transcript with every routed call replaced by the direct call
DirectCalls(msgs) ==
    [i \in 1..Len(msgs) |->
        [k \in 1..Len(msgs[i]) |->
            IF msgs[i][k].type = "tool"
            THEN [msgs[i][k] EXCEPT !.tool = DirectName(@)]
            ELSE msgs[i][k]]]

\* C21: a call named mcp_X gives the same event, name and payload, as a
\* call named X, whatever the tool X and its letter case: the events of a
\* transcript are those of the transcript with every mcp_X replaced by X.
C21_McpPrefixStripped ==
    pc = "extracted" => lastEvents = extractToolEvents(DirectCalls(messages))

(* ------------------ properties of the engine over time --------------- *)

\* the run that has just returned has the arguments of the earlier run
SameArguments ==
    /\ earlier # None
    /\ earlier[1].files = lastFiles
    /\ earlier[1].events = lastEvents

\* the verdict of the files as they are now: the first failure of the
\* groups that the configs on disk give for the changed files
VerdictNow ==
    LET grouped == groupFilesByConfig(lastFiles, RepoRoot)
    IN  IF grouped.kind = "throw" THEN Throws(grouped.error)
        ELSE runGroupsFrom(grouped.groups, lastEvents, RepoRoot)

\* the names of the rules that the files on disk define now: those of the
\* preset file, when the config names the preset, and those of the config
RulesOnDisk ==
    IF configAt[DirR] = None THEN {}
    ELSE LET doc == configAt[DirR][1]
             file == PresetFile(HomeConfig, PresetP)
             fromPreset == IF doc.presets # None /\ file \in DOMAIN xdgPresets
                           THEN xdgPresets[file].checks[1] ELSE <<>>
             all == fromPreset \o doc.checks[1]
         IN  {all[i].name : i \in 1..Len(all)}

\* the config on disk names a preset whose file is not there
PresetGone ==
    /\ configAt[DirR] # None
    /\ configAt[DirR][1].presets # None
    /\ PresetFile(HomeConfig, PresetP) \notin DOMAIN xdgPresets

\* C25: nothing of a config is kept from one run to the next: when the
\* config file or the preset file it names was written, created or removed
\* since an earlier run of the same arguments, the verdict is the one of the
\* files as they are now: no failure when the config is gone, an error
\* exactly when its preset is gone, and never the failure of a rule that is
\* no longer on disk.
C25_NoConfigCache ==
    (pc = "checked" /\ SameArguments /\ earlier[1].fs # FileSystem) =>
        /\ result = VerdictNow
        /\ configAt[DirR] = None => result = Null
        /\ result.kind = "throw" <=> PresetGone
        /\ result.kind = "message" => result.message[2] \in RulesOnDisk

\* a run after the preset file was rewritten, whose verdict is not the one
\* of the earlier run
C25_Witness ==
    /\ pc = "checked"
    /\ SameArguments
    /\ earlier[1].fs[3] # xdgPresets
    /\ earlier[1].fs[1] = configAt
    /\ result # earlier[1].verdict
    /\ result.kind = "message"

(* -------------- properties of the functions of transcript.ts --------- *)

\* p occurs in c: c is some text, then p, then some text
Occurs(p, c) == \E a \in 0..Len(c) : a + Len(p) <= Len(c) /\ SubSeq(c, a + 1, a + Len(p)) = p

\* the commands logged after index n: those of the Bash events of the call
LoggedAfter(n) ==
    {lastEvents[i].command[1] :
        i \in {j \in 1..Len(lastEvents) :
                 /\ lastEvents[j].toolName = BashName
                 /\ lastEvents[j].command # None
                 /\ lastEvents[j].index > n}}

AskedPatterns == {call.args[1][k] : k \in 1..Len(call.args[1])}

C27_ExactMatch ==
    (pc = "called" /\ call.fn = "wasCommandRunAfter" /\ call.value) =>
        \E p \in AskedPatterns : p \in LoggedAfter(call.args[2])

\* the places of the events that are an Edit or a Write of a path the
\* matcher of the call accepts
Accepted ==
    {i \in 1..Len(lastEvents) :
        /\ lastEvents[i].toolName \in {EditName, WriteName}
        /\ lastEvents[i].filePath # None
        /\ lastEvents[i].filePath[1] # <<>>
        /\ call.args[1][lastEvents[i].filePath[1]]}

\* C30: findLastEditIndex returns -1 exactly when no event is an Edit or a
\* Write with a path the matcher accepts; otherwise it returns the index of
\* the last such event of the list: Bash events, events of other tools and
\* Edit/Write events without a path (none, or an empty one) do not count.
C30_LastAcceptedEdit ==
    (pc = "called" /\ call.fn = "findLastEditIndex") =>
        /\ call.value = -1 <=> Accepted = {}
        /\ Accepted # {} =>
              \E i \in Accepted :
                  /\ \A j \in Accepted : j <= i
                  /\ call.value = lastEvents[i].index

\* a call that returns the index of an accepted edit that is neither the
\* first accepted one nor the last event: an edit of a path the matcher
\* rejects comes after it
C30_Witness ==
    /\ pc = "called" /\ call.fn = "findLastEditIndex"
    /\ Len(lastEvents) = 3
    /\ call.value = 1
    /\ Accepted = {1, 2}
    /\ lastEvents[3].toolName \in {EditName, WriteName}
    /\ lastEvents[3].filePath # None

(* ---------------- properties of the failure message ------------------ *)

CommandsFailure ==
    /\ pc = "checked"
    /\ result.kind = "message"
    /\ result.message[3] = "' failed: these commands must run after editing "

\* the patterns of rule r no Bash event after the triggering edit contains,
\* in the order the rule declares them
Unmet(r) == SelectSeq(Patterns(r), LAMBDA p : ~RanAfter(p, TriggerPos(r)))

\* C24: the message of a failed ensure_commands rule holds the rule's name,
\* its glob and, joined by ", ", the patterns that were not run after the
\* triggering edit, all of them, in declared order, and no pattern that was
\* run after it.
C24_MessageListsMissing ==
    CommandsFailure =>
        \E r \in Rules :
            /\ IsCommandsRule(r) /\ Triggered(r)
            /\ result.message[1] = "Check '"
            /\ result.message[2] = r.check.name
            /\ result.message[4] = r.check.paths_changed
            /\ result.message[5] = ": "
            /\ Unmet(r) # <<>>
            /\ result.message[6] = JoinWith(Unmet(r), <<",", " ">>)

\* a failure of a rule with two patterns, the first of them run after the
\* triggering edit, the second not: the message lists the second only
C24_Witness ==
    /\ CommandsFailure
    /\ \E r \in Rules :
          /\ IsCommandsRule(r) /\ Triggered(r)
          /\ result.message[2] = r.check.name
          /\ Len(Patterns(r)) = 2
          /\ RanAfter(Patterns(r)[1], TriggerPos(r))
          /\ ~RanAfter(Patterns(r)[2], TriggerPos(r))
          /\ result.message[6] = Patterns(r)[2]

(* ----------------- properties of deriveNameFromCwd ------------------- *)

NameCall == pc = "named" /\ call.fn = "deriveNameFromCwd"

\* the components of the working directory of the call, and those of the
\* home directory of the call
CwdParts == Split(call.args[1], "/")
HomeParts == IF call.args[2] = None THEN <<<<>>>> ELSE Split(call.args[2][1], "/")

\* the components of the working directory after those of directory d, when
\* it is below d or d followed by a slash
Below(d) ==
    IF Len(CwdParts) > Len(d) /\ SubSeq(CwdParts, 1, Len(d)) = d
    THEN Some(SubSeq(CwdParts, Len(d) + 1, Len(CwdParts)))
    ELSE None

InTrees == Below(HomeParts \o << <<".","m","e","o","w">>, <<"t","r","e","e","s">> >>)
InSrc == Below(HomeParts \o << <<"s","r","c">> >>)
NonEmptyParts == SelectSeq(CwdParts, LAMBDA c : c # <<>>)

\* C29: deriveNameFromCwd returns null or a component of the working
\* directory that is neither empty nor "tmp": the branch under
\* ~/.meow/trees/; else, under ~/src/, the project (the category when no
\* project follows it); else the last component.
C29_NameNeverTmp ==
    (NameCall /\ call.value # None) =>
        /\ call.value[1] # <<>>
        /\ call.value[1] # Tmp
        /\ \E i \in 1..Len(CwdParts) : CwdParts[i] = call.value[1]
        /\ InTrees # None => call.value[1] = InTrees[1][1]
        /\ (InTrees = None /\ InSrc # None) =>
              IF Len(InSrc[1]) >= 2 /\ InSrc[1][2] # <<>>
              THEN call.value[1] = InSrc[1][2]
              ELSE call.value[1] = InSrc[1][1]
        /\ (InTrees = None /\ InSrc = None) =>
              call.value[1] = NonEmptyParts[Len(NonEmptyParts)]

\* the call names a project below ~/src/tmp/: the category is "tmp", the
\* name is the component after it, and the last component is another one
C29_Witness ==
    /\ NameCall
    /\ call.args[2] = Some(HomeDir)
    /\ InTrees = None /\ InSrc # None
    /\ Len(InSrc[1]) = 3
    /\ InSrc[1][1] = Tmp
    /\ call.value = Some(InSrc[1][2])
    /\ InSrc[1][3] = Tmp

(* ---------------------- properties of the plugin --------------------- *)

\* the rules of the idle session that its transcript leaves unmet, and
\* their messages
UnmetRules == {r \in Rules : ~Passes(r)}
UnmetMessages == {OutcomeOn(r, lastEvents).error : r \in UnmetRules}

\* the handler sent one prompt, to the idle session, with the message of
\* an unmet rule
Blocked ==
    /\ lastEvent.sent = 1
    /\ prompts[Len(prompts)].sessionID = lastEvent.sessionID
    /\ prompts[Len(prompts)].text \in UnmetMessages

IdleEvent == pc = "serving" /\ lastEvent.type = "session.idle"

Readable ==
    /\ lastEvent.gitOk
    /\ lastEvent.apiOk
    /\ groupFilesByConfig(lastFiles, RepoRoot).kind = "ok"

Without(m, s) == {<<t, m[t]>> : t \in DOMAIN m \ {s}}
Entries(m) == {<<t, m[t]>> : t \in DOMAIN m}
SessionMaps == <<askingState, sessionDirectories, lastSpinnerUpdate, spinnerState>>
Known(s) == \E i \in 1..Len(SessionMaps) : s \in DOMAIN SessionMaps[i]

\* C28: the handler of session.deleted for session S removes the entries of
\* S from the four per-session maps, leaves the entries of every other
\* session as they are, and changes nothing when S has no entry.
C28_TeardownLocal ==
    [][(lastEvent.type = "session.deleted")' =>
          /\ \A i \in 1..Len(SessionMaps) :
                Entries(SessionMaps[i]') = Without(SessionMaps[i], lastEvent'.sessionID)
          /\ ~Known(lastEvent'.sessionID) => SessionMaps' = SessionMaps
          /\ prompts' = prompts]_vars

\* session s1 was deleted and has no entry; s2 has one in every map
C28_Witness ==
    /\ pc = "serving"
    /\ lastEvent = Event("session.deleted", "s1")
    /\ ~Known("s1")
    /\ \A i \in 1..Len(SessionMaps) : DOMAIN SessionMaps[i] = {"s2"}

(* ------------------- properties of groupFilesByConfig ---------------- *)

GroupCall == pc = "grouped" /\ call.fn = "groupFilesByConfig"
Groups == call.value.groups

\* the nearest config of a changed file, and the changed files that have
\* the config at path p as their nearest one, in the order of the list
NearestOf(file) == findNearestConfig(PathJoin(RepoRoot, PathOf(file)), RepoRoot)
GovernedBy(p) ==
    SelectSeq(lastFiles, LAMBDA f : NearestOf(f).kind = "config" /\ NearestOf(f).configPath = p)

\* C31: the groups of groupFilesByConfig partition the changed files that
\* have a nearest config: such a file is in the group keyed by the path of
\* its nearest config and in no other; a group holds the files that have
\* its config as their nearest one, in the order of the list, and nothing
\* else; no two groups have the same key and no group is empty.
C31_GroupsPartition ==
    GroupCall =>
        /\ call.value.kind = "ok"
        /\ \A i \in 1..Len(lastFiles) :
              NearestOf(lastFiles[i]).kind = "config" =>
                  \E g \in 1..Len(Groups) :
                      /\ Groups[g].loaded.configPath = NearestOf(lastFiles[i]).configPath
                      /\ \A h \in 1..Len(Groups) :
                            (\E k \in 1..Len(Groups[h].files) : Groups[h].files[k] = lastFiles[i])
                                <=> h = g
        /\ \A g \in 1..Len(Groups) :
              /\ Groups[g].files # <<>>
              /\ Groups[g].files = GovernedBy(Groups[g].loaded.configPath)
              /\ Groups[g].loaded = NearestOf(Groups[g].files[1])
        /\ \A g, h \in 1..Len(Groups) :
              Groups[g].loaded.configPath = Groups[h].loaded.configPath => g = h

\* a call with a/x.ts, b/x.ts and a/v, in this order, where /t/r/a and
\* /t/r/b hold a config: the group of /t/r/a has its two files in order,
\* the file of /t/r/b between them is in the other group
C31_Witness ==
    /\ GroupCall
    /\ lastFiles = << <<"a","/","x",".","t","s">>, <<"b","/","x",".","t","s">>, <<"a","/","v">> >>
    /\ Len(Groups) = 2
    /\ Groups[1].loaded.configDir = DirA
    /\ Groups[1].files = << <<"a","/","x",".","t","s">>, <<"a","/","v">> >>
    /\ Groups[2].loaded.configDir = DirB
    /\ Groups[2].files = << <<"b","/","x",".","t","s">> >>

(* ------------------ properties of the triggering edit ---------------- *)

FailureReported == pc = "checked" /\ result.kind = "message"

\* the changed files of the group of rule r that its glob matches
MatchingChanged(r) ==
    {r.files[i] : i \in {j \in 1..Len(r.files) :
        globMatcher(r.check, r.loaded.configDir, PathJoin(RepoRoot, PathOf(r.files[j])))}}

\* changed file f was the target of an Edit or Write event of the log
EditedInSession(f) ==
    \E e \in EventSet(lastEvents) :
        /\ IsEditOrWrite(e)
        /\ Truthy(e.filePath)
        /\ Resolve(PathOf(e.filePath[1])) = Resolve(PathJoin(RepoRoot, PathOf(f)))

\* C32: whenever runChecks reports the failure of a rule, one of the
\* changed files that the rule's glob matches was itself the target of an
\* Edit/Write event of the log.
C32_FailureNeedsEditedChangedFile ==
    FailureReported =>
        \E r \in Rules :
            /\ r.check.name = FailedName
            /\ \E f \in MatchingChanged(r) : EditedInSession(f)

\* C32 as amended: whenever runChecks reports the failure of a rule, a
\* changed file of the rule's group matches its glob and an Edit/Write
\* event of the log targets a path that matches its glob, which need not
\* be a changed file.
C32_FailureNeedsMatchingEdit ==
    FailureReported =>
        \E r \in Rules :
            /\ r.check.name = FailedName
            /\ MatchingChanged(r) # {}
            /\ MatchingEdits(r) # {}

\* a reported failure of a rule none of whose matching changed files was
\* edited: the edit that triggers it is of another matching path
C32_Witness ==
    /\ FailureReported
    /\ \E r \in Rules :
          /\ r.check.name = FailedName
          /\ MatchingChanged(r) # {}
          /\ \A f \in MatchingChanged(r) : ~EditedInSession(f)
          /\ MatchingEdits(r) # {}

(* -------------------- properties of nested configs ------------------- *)

\* the directories with a config from the directory of absolute path p up
\* to the repository's root, and the deepest of them
ConfigDirsAbove(p) ==
    {d \in Dirs : /\ configAt[d] # None
                  /\ Under(RepoRoot, d)
                  /\ Under(d, Dirname(Resolve(p)))}
NearestConfigDir(p) ==
    CHOOSE d \in ConfigDirsAbove(p) : \A d2 \in ConfigDirsAbove(p) : Len(d2.segs) <= Len(d.segs)
GovernedByDir(p, d) == ConfigDirsAbove(p) # {} /\ NearestConfigDir(p) = d

\* config directory d is a proper ancestor of config directory n
Nested(d, n) ==
    /\ configAt[d] # None /\ configAt[n] # None
    /\ Under(RepoRoot, d) /\ Under(d, n) /\ d # n

\* the targets of the Edit/Write events of the log
EditTargets ==
    {PathOf(e.filePath[1]) : e \in {x \in EventSet(lastEvents) : IsEditOrWrite(x) /\ Truthy(x.filePath)}}
EditsConfinedTo(n) == \A p \in EditTargets : GovernedByDir(p, n)
FilesConfinedTo(n) ==
    \A i \in 1..Len(lastFiles) : GovernedByDir(PathJoin(RepoRoot, PathOf(lastFiles[i])), n)

\* the failure reported is of a rule of the config of directory d
FailureOf(d) ==
    /\ FailureReported
    /\ \E i \in 1..Len(DocChecks(configAt[d][1])) : DocChecks(configAt[d][1])[i].name = FailedName

DeclaredChecks(name) ==
    IF OverrideDoc(name).parse = "ok" /\ OverrideDoc(name).checks # None
    THEN OverrideDoc(name).checks[1] ELSE <<>>

\* C34: when a file for a preset name exists in the override directory,
\* resolving the name never fails with a preset-not-found error; when the
\* files of all the document's presets are there and parse, the load
\* reports no preset-not-found error at all, and a document made of one
\* such preset alone that loads has exactly the file's declared checks, none
\* when the file declares none.
C34_PresentPresetIsFound ==
    (pc = "loaded" /\ TheDoc.parse = "ok") =>
        /\ \A i \in 1..Len(PresetList) :
              HasOverride(PresetList[i]) =>
                  ~(loadResult.kind = "throw" /\ IsPresetNotFound(loadResult.error, PresetList[i]))
        /\ (/\ Len(PresetList) = 1
            /\ HasOverride(PresetList[1])
            /\ OverrideDoc(PresetList[1]).parse # "error"
            /\ loadResult.kind = "ok")
           => loadResult.checks = DeclaredChecks(PresetList[1]) \o LocalChecks

(* ------------------- properties of raising evaluation ---------------- *)

\* every config of the repository loads
AllConfigsLoad ==
    \A d \in Dirs :
        (configAt[d] # None /\ Under(RepoRoot, d))
            => loadConfig(PathJoin(d, RelPath(<<CONFIG_FILENAME>>))).kind = "ok"

\* C35: rule evaluation never raises: when every config loads, rules of
\* unvalidated presets included, runChecks returns null or a failure
\* message, whatever the changed files and the action log are.
C35_EvaluationNeverRaises ==
    (pc = "checked" /\ AllConfigsLoad) => result.kind \in {"null", "message"}

\* the checks a loaded config of /t/r is made of all have `when` and `then`
WellFormedRules ==
    LET loaded == loadConfig(PathJoin(DirR, RelPath(<<CONFIG_FILENAME>>)))
    IN  \A i \in 1..Len(loaded.checks) : loaded.checks[i].hasWhen /\ loaded.checks[i].hasThen

\* when every config loads and every rule has its `when` and its `then`,
\* runChecks returns null or a failure message
EvaluationOfWellFormedRules ==
    (pc = "checked" /\ AllConfigsLoad /\ WellFormedRules) => result.kind \in {"null", "message"}

(* ------------------ properties of the directory cache ---------------- *)

DirectoryCall == call.fn = "getSessionDirectory"
CacheBefore == call.args[1]
CallSession == call.args[2]
CallFetched == call.args[3]
WasCached == CallSession \in DOMAIN CacheBefore

\* C39: the session directory cache only ever holds, for a session, the
\* directory the host returned for it; getSessionDirectory returns the
\* cached directory when there is one and leaves the cache alone, caches
\* and returns the directory of a successful fetch that carries one, and
\* returns the fallback without caching it when the fetch fails or carries
\* no directory.
C39_CacheHoldsHostDirectories ==
    /\ \A s \in DOMAIN sessionDirectories : sessionDirectories[s] = HostDirectory(s)
    /\ DirectoryCall =>
          /\ WasCached =>
                /\ call.value.dir = CacheBefore[CallSession]
                /\ call.value.cache = CacheBefore
          /\ (~WasCached /\ CallFetched = Some(HostDirectory(CallSession))) =>
                /\ call.value.dir = HostDirectory(CallSession)
                /\ DOMAIN call.value.cache = DOMAIN CacheBefore \cup {CallSession}
                /\ call.value.cache[CallSession] = HostDirectory(CallSession)
                /\ \A s \in DOMAIN CacheBefore : call.value.cache[s] = CacheBefore[s]
          /\ (~WasCached /\ CallFetched \in {None, Some(<<>>)}) =>
                /\ call.value.dir = PluginDirectory
                /\ call.value.cache = CacheBefore

\* a call for a session that falls back, the fetch having failed, while
\* the other session's directory is cached; the cache still holds that one
\* entry only
C39_Witness ==
    /\ DirectoryCall
    /\ ~WasCached
    /\ CallFetched = None
    /\ call.value.dir = PluginDirectory
    /\ sessionDirectories # NoSessions
    /\ CallSession \notin DOMAIN sessionDirectories

(* ----------------------- properties of the spinner ------------------- *)

TabCall == call.fn = "updateZellijTab"
SpinnerBefore == call.args[1]
TabState == call.args[2]
TabSession == call.args[4]
Named == call.args[3] # <<"/","t","m","p">>
IndexBefore == IF TabSession \in DOMAIN SpinnerBefore THEN SpinnerBefore[TabSession] ELSE 0
IndexAfter == IF TabSession \in DOMAIN spinnerState THEN spinnerState[TabSession] ELSE 0
NextIndex(i) == IF i = SPINNER_FRAMES_LENGTH - 1 THEN 0 ELSE i + 1

\* C38: the spinner frame index of every session stays in 0..9 after any
\* sequence of tab updates: an "active" update shows the current frame and
\* advances the index by one modulo 10, a "stopped" update resets it to the
\* first frame, an "asking" update leaves it unchanged, an update whose
\* derived tab name is null changes nothing, and no update touches the
\* index of another session.
C38_SpinnerIndexInRange ==
    /\ \A s \in DOMAIN spinnerState : spinnerState[s] \in 0..(SPINNER_FRAMES_LENGTH - 1)
    /\ TabCall =>
          /\ \A s \in Sessions \ {TabSession} :
                /\ s \in DOMAIN spinnerState <=> s \in DOMAIN SpinnerBefore
                /\ s \in DOMAIN spinnerState => spinnerState[s] = SpinnerBefore[s]
          /\ ~Named => (spinnerState = SpinnerBefore /\ call.value = None)
          /\ (Named /\ TabState = "active") =>
                /\ call.value = Some(SpinnerFrame(IndexBefore))
                /\ IndexAfter = NextIndex(IndexBefore)
          /\ (Named /\ TabState = "stopped") =>
                /\ call.value = Some(DONE_CHAR)
                /\ IndexAfter = 0
          /\ (Named /\ TabState = "asking") =>
                /\ call.value = Some(ASKING_CHAR)
                /\ spinnerState = SpinnerBefore

\* an "active" update that shows the last frame and wraps around to the
\* first, the other session being in the middle of its cycle
C38_Witness ==
    /\ TabCall
    /\ Named /\ TabState = "active"
    /\ IndexBefore = SPINNER_FRAMES_LENGTH - 1
    /\ IndexAfter = 0
    /\ \E s \in DOMAIN spinnerState \ {TabSession} : spinnerState[s] > 0

(* ------------------ properties of the asking indicator --------------- *)

\* the handler just served updated the tab of its session
TabUpdated == pc = "serving" /\ lastEvent.type # "none" /\ TabCall /\ call.value # None
UpdatedSession == call.args[2]
Asking(sessionID) == sessionID \in DOMAIN askingState /\ askingState[sessionID]

\* C36: while the asking flag of a session is set, the most recent tab
\* update issued for the session is the asking indicator: a handler that
\* leaves the flag of a session set has not given its tab a spinner or
\* done frame.
C36_AskingNotOverwritten ==
    (TabUpdated /\ Asking(UpdatedSession)) => call.value = Some(ASKING_CHAR)

(* -------------------- properties of session teardown ----------------- *)

\* a session has ended and none of its handlers is suspended any more
Settled(sessionID) ==
    /\ sessionID \in inFlight.ended
    /\ \A h \in inFlight.handlers : h.sessionID # sessionID

\* C37: once the session.deleted handler of a session has run and every
\* handler of the session that was in flight has completed, none of the
\* per-session maps (directory cache, asking state, spinner throttle,
\* spinner frame) holds an entry for the session.
C37_NoStateAfterDeletion ==
    \A s \in Sessions :
        Settled(s) =>
            /\ s \notin DOMAIN sessionDirectories
            /\ s \notin DOMAIN askingState
            /\ s \notin DOMAIN lastSpinnerUpdate
            /\ s \notin DOMAIN spinnerState

=============================================================================
